---- MODULE Spec2Model ----
(***************************************************************************)
(* The resilient external-call layer of The-Vibe-Venue:                    *)
(*   - LRUCache            (lib/cache.ts,        src/unnamed/part_006)     *)
(*   - RateLimiter         (src/lib/rate-limiter.ts)                       *)
(*   - retryWithBackoff    (lib/retry.ts,        src/unnamed/part_008)     *)
(*   - searchMultipleQueries and the search-venues handler's merge         *)
(*                         (src/unnamed/part_008, src/unnamed/part_012)    *)
(* Every handler is synchronous JavaScript (one run-to-completion step of  *)
(* the event loop), so each is one atomic action; Date.now() is read as    *)
(* the single value `now` throughout one handler.                          *)
(***************************************************************************)
EXTENDS Integers, Sequences, FiniteSets, TLC

VARIABLES
    now,        \* Date.now(), in milliseconds
    cache,      \* LRUCache.cache : Map<string, CacheEntry>, in Map iteration order
    stats,      \* LRUCache.stats : {hits, misses, evictions}
    cret,       \* what the last cache call returned (cleared when the clock moves)
    track,      \* history: the last hitting get and the new keys set right after it
    hist,       \* history: get calls made and missed, latest unexpired set per key
    store,      \* RateLimiter.store : Map<string, RateLimitEntry>
    rret,       \* what the last check returned (cleared when the clock moves)
    lcfg,       \* per identifier, the limit and windowMs its callers pass to check
    admitted,   \* history: per identifier, the admission times of the last windowMs
    promise,    \* history: per identifier, the earliest retry time a denial announced
    gate,       \* one geocode request on its way through the middleware and the handler
    rcfg,       \* retryWithBackoff: finalConfig
    script,     \* the wrapped operation: the errors of its first calls, then its value
    rpc,        \* retryWithBackoff: where the call stands
    attempt,    \* retryWithBackoff: the loop index
    calls,      \* invocations of the wrapped operation so far
    lastError,  \* retryWithBackoff: lastError
    totalDelay, \* retryWithBackoff: totalDelay
    sleeps,     \* the delays slept so far, in order
    rresult,    \* what retryWithBackoff returned or threw
    msite,      \* which search pass runs: searchMultipleQueries or the search-venues handler
    plan,       \* per query, what its provider call will answer
    qres,       \* per query, the settled result of its call, or pending
    mpc,        \* where the search pass stands
    merged,     \* the deduplicated venue list
    hpc,        \* where the search-venues handler (TomTom) stands
    found,      \* handler: venues, as returned by searchMultipleQueries
    resp,       \* handler: the response written, status and venues
    corder,     \* history: the queries in the order their calls settled
    tt,         \* TomTom: whether TOMTOM_API_KEY is set, and tomtomRequestCount
    lastRequest, \* throttle: lastNominatimRequest, or RateLimiter.lastCall
    interval,   \* throttle: NOMINATIM_RATE_LIMIT_MS, or RateLimiter.interval
    sweepAt,    \* LRUCache: when the next setInterval callback of the sweep is due
    ovp,        \* searchVenuesOverpass: the servers' answers, the loop position, the result
    dd,         \* deduplicateBy and the placeId merge applied to one list, and again
    req,        \* TomTom: per concurrent caller, the call it is in and what it returned
    tlog,       \* history: tomtomRequestCount at the last reset, requests issued since
    callers     \* throttle: per concurrent call, where it stands and when it went upstream

cacheVars == <<cache, stats, cret, track, hist>>
limiterVars == <<store, rret, lcfg, admitted, promise, gate>>
retryVars == <<rcfg, script, rpc, attempt, calls, lastError, totalDelay, sleeps, rresult>>
mergeVars == <<msite, plan, qres, mpc, merged, hpc, found, resp, corder, tt>>
throttleVars == <<lastRequest, interval, callers>>
timerVars == <<sweepAt>>
overpassVars == <<ovp, dd>>
tomtomVars == <<req, tlog>>
vars == <<now, cacheVars, limiterVars, retryVars, mergeVars, throttleVars, timerVars,
          overpassVars, tomtomVars>>

(***************************************************************************)
(* Bounds of the model.                                                    *)
(***************************************************************************)
MaxSize == 2        \* LRUCache.maxSize of the modelled instance
MaxTime == 2        \* the clock stops advancing here
MaxLookups == 2     \* get calls counted by stats.hits + stats.misses
MaxEvictions == 2   \* evictions counted by stats.evictions
MaxTicks == 10      \* sweep periods the rate limiter's clock advances
MaxAttempts == 3    \* the largest config.maxAttempts tried
MaxFails == 3       \* the most failures the wrapped operation makes before succeeding
MaxQueries == 2     \* queries of one search pass
MaxResults == 2     \* venues one query returns
MaxVenues == 6      \* venues searchMultipleQueries hands to the handler
MaxLong == 17       \* venues of the longest list handed to the handler
MaxGateTicks == 2   \* sweep periods the clock advances while requests pass the gates
MaxBusyTicks == 1   \* sweep periods during which checks still arrive
MaxSweeps == 2      \* periods of the cache's sweep timer the clock advances
MaxLateMs == 3      \* milliseconds the callback of the sweep timer runs late
MaxReads == 1       \* get calls made while the sweep timer runs
MaxGapMs == 1       \* milliseconds between two reads of Date.now() in one call
MaxItems == 3       \* items of the longest list deduplicated
MaxCallers == 3     \* calls in progress at the throttle at once
MaxThrottleTicks == 6 \* quarter intervals the throttle's clock advances

\* Cache keys are arbitrary strings; the empty string is one of them.
Keys == {"", "a", "b"}
Values == {"v1", "v2"}
TTLs == {1}
Null == "null"

(***************************************************************************)
(* RateLimiter                                                             *)
(***************************************************************************)
\* The period of the sweep, `setInterval(..., 60000)`; the limiter's clock is
\* observed at multiples of it.
CleanupIntervalMs == 60000

ShortWindowMs == CleanupIntervalMs

\* `const maxWindowMs = 10 * 60 * 1000`
MaxWindowMs == 10 * 60 * 1000

\* The identifiers checked, each always with the same limit and window:
\* one minute as the callers of the repository pass, a longer window, and one
\* beyond the sweep's maxWindowMs.
Idents == {"global:ip", "geocode:ip"}
Configs == {[limit |-> 1, windowMs |-> CleanupIntervalMs],
            [limit |-> 2, windowMs |-> 2 * CleanupIntervalMs],
            [limit |-> 2, windowMs |-> 11 * CleanupIntervalMs]}
LimitOf(id) == lcfg[id].limit
WindowOf(id) == lcfg[id].windowMs

Absent == [present |-> FALSE, timestamps |-> <<>>]
NoResult == [op |-> "none", id |-> "", allowed |-> FALSE, remaining |-> 0,
             resetTime |-> 0, retryAfter |-> <<>>]

InWindowInclusive(ts, t, windowMs) == t - ts <= windowMs

\* `(timestamp) => now - timestamp < windowMs`
InWindow(ts, t, windowMs) == t - ts < windowMs

UnderLimitInclusive(n, limit) == n <= limit

\* `entry.timestamps.length < limit`
UnderLimit(n, limit) == n < limit

FloorSeconds(ms) == ms \div 1000

\* Math.ceil(ms / 1000) for ms >= 0
CeilSeconds(ms) == (ms + 999) \div 1000

Max0(x) == IF x > 0 THEN x ELSE 0

\* check(identifier, limit, windowMs): the record left in the store and the
\* result returned.
KeptAll(id, windowMs) == store[id].timestamps

Kept(id, windowMs) ==
    SelectSeq(store[id].timestamps, LAMBDA ts : InWindow(ts, now, windowMs))

RemainingBefore(allowed, remaining) == remaining

\* `remaining: allowed ? remaining - 1 : 0`
RemainingAfter(allowed, remaining) == IF allowed THEN remaining - 1 ELSE 0

ResetTimeFromNow(kept, t, windowMs) == t + windowMs

\* resetTime: `oldestTimestamp ? oldestTimestamp + windowMs : now + windowMs`;
\* undefined and 0 are both falsy.
ResetTime(kept, t, windowMs) ==
    IF Len(kept) > 0 /\ kept[1] # 0 THEN kept[1] + windowMs ELSE t + windowMs

\* What check returns at time t once the filter has left `kept`.
ResultFrom(kept, t, id, limit, windowMs) ==
    LET allowed == UnderLimit(Len(kept), limit)
        remaining == Max0(limit - Len(kept))
        resetTime == ResetTime(kept, t, windowMs)
    IN  [op |-> "check",
         id |-> id,
         allowed |-> allowed,
         remaining |-> RemainingAfter(allowed, remaining),
         resetTime |-> resetTime,
         retryAfter |-> IF allowed THEN <<>> ELSE <<CeilSeconds(resetTime - t)>>]

CheckResult(id, limit, windowMs) ==
    ResultFrom(Kept(id, windowMs), now, id, limit, windowMs)

\* What the caller of a denied check was told: retry at `due`.  The earliest
\* announcement since the last admission is kept; an admission at or after
\* it marks it paid.  The history is kept only where it is switched on.
NoPromise == [state |-> "none", due |-> 0]
Unobserved == [state |-> "off", due |-> 0]

Promised(p, res) ==
    IF p.state = "off" THEN p
    ELSE IF res.allowed
    THEN IF p.state = "owed" /\ now >= p.due THEN [p EXCEPT !.state = "paid"]
         ELSE NoPromise
    ELSE LET due == now + 1000 * res.retryAfter[1]
         IN  IF p.state = "owed" /\ p.due <= due THEN p
             ELSE [state |-> "owed", due |-> due]

CheckStore(id, limit, windowMs) ==
    LET kept == Kept(id, windowMs)
        res == CheckResult(id, limit, windowMs)
    IN  /\ store' = IF res.allowed
                    THEN [store EXCEPT ![id] =
                            [present |-> TRUE, timestamps |-> Append(kept, now)]]
                    ELSE IF store[id].present
                    \* the stored entry object was filtered in place
                    THEN [store EXCEPT ![id].timestamps = kept]
                    ELSE store
        /\ rret' = res
        /\ admitted' = IF res.allowed
                       THEN [admitted EXCEPT ![id] = Append(@, now)]
                       ELSE admitted
        /\ promise' = [promise EXCEPT ![id] = Promised(@, res)]
        /\ UNCHANGED <<now, lcfg>>
        /\ UNCHANGED <<cacheVars, retryVars, mergeVars, throttleVars, timerVars, overpassVars, tomtomVars>>

\* A check made by any other caller.
Check(id, limit, windowMs) ==
    /\ CheckStore(id, limit, windowMs)
    /\ UNCHANGED gate

DeleteAll(id) == [other \in Idents |-> Absent]

\* `this.store.delete(identifier)`
Delete(id) == [store EXCEPT ![id] = Absent]

\* reset(identifier); the admissions of the identifier are counted from its
\* last reset on.
Reset(id) ==
    /\ store' = Delete(id)
    /\ rret' = [NoResult EXCEPT !.op = "reset", !.id = id]
    /\ admitted' = [admitted EXCEPT ![id] = <<>>]
    /\ UNCHANGED <<now, lcfg, promise, gate>>
    /\ UNCHANGED <<cacheVars, retryVars, mergeVars, throttleVars, timerVars, overpassVars, tomtomVars>>

SweepEntryKeeps(e) == e

\* The setInterval callback: cleanup().
SweepEntry(e) ==
    LET valid == SelectSeq(e.timestamps, LAMBDA ts : InWindow(ts, now, MaxWindowMs))
    IN  IF ~e.present \/ Len(valid) = 0 THEN Absent
        ELSE [present |-> TRUE, timestamps |-> valid]

Sweep ==
    /\ store' = [id \in Idents |-> SweepEntry(store[id])]
    /\ rret' = NoResult
    /\ UNCHANGED <<now, lcfg, admitted, promise, gate>>
    /\ UNCHANGED <<cacheVars, retryVars, mergeVars, throttleVars, timerVars, overpassVars, tomtomVars>>

\* The clock moves by one sweep period between two handlers.  Date.now() is
\* positive when the limiter is built: the clock of the model starts at
\* StartMs or one period later.
StartMs == CleanupIntervalMs
LimiterStarts == {StartMs, StartMs + CleanupIntervalMs}
LimiterEnd == StartMs + MaxTicks * CleanupIntervalMs
GateEnd == StartMs + MaxGateTicks * CleanupIntervalMs

AdvanceClock ==
    /\ now' = now + CleanupIntervalMs
    /\ rret' = NoResult
    /\ admitted' = [id \in Idents |->
                      SelectSeq(admitted[id],
                                LAMBDA ts : now' - ts < WindowOf(id))]
    /\ UNCHANGED <<store, lcfg, promise, gate>>
    /\ UNCHANGED <<cacheVars, retryVars, mergeVars, throttleVars, timerVars, overpassVars, tomtomVars>>

TickMs ==
    /\ now < LimiterEnd
    /\ AdvanceClock

LimiterEmpty ==
    /\ store = [id \in Idents |-> Absent]
    /\ rret = NoResult
    /\ admitted = [id \in Idents |-> <<>>]
    /\ promise = [id \in Idents |-> Unobserved]

\* Traffic that stops: checks arrive up to BusyEnd, then none; the clock
\* goes on for the sweep's maxWindowMs.
BusyEnd == StartMs + MaxBusyTicks * CleanupIntervalMs
QuietEnd == BusyEnd + MaxWindowMs

QuietCheck(id) ==
    /\ now <= BusyEnd
    /\ Check(id, LimitOf(id), WindowOf(id))

QuietTick ==
    /\ now < QuietEnd
    /\ AdvanceClock

(***************************************************************************)
(* A geocode request: the middleware's global gate, then the handler's     *)
(* route gate, then the provider call                                      *)
(***************************************************************************)
GlobalLimit == 30
GeocodeLimit == 10
GateWindowMs == 60000

NoRequest == [pc |-> "off", method |-> "", hasBody |-> FALSE, valid |-> FALSE,
              global |-> "none",
              route |-> "none", status |-> 0, retryAfter |-> 0, provider |-> 0]

Verdict(res) == IF res.allowed THEN "allowed" ELSE "denied"

\* calculateRetryAfter: `result.retryAfter || 60`
CalculateRetryAfter(res) ==
    IF res.retryAfter # <<>> /\ res.retryAfter[1] # 0 THEN res.retryAfter[1] ELSE 60

GateOpenAlways(res) == TRUE

\* `if (!result.allowed)` answers 429, otherwise the request goes on
GateOpen(res) == res.allowed

\* A request enters: its method, whether req.body is an object (not null or
\* undefined), and whether that object holds a usable location.
Arrive ==
    /\ gate.pc \in {"idle", "done"}
    /\ \E method \in {"POST", "GET"}, hasBody \in BOOLEAN, valid \in BOOLEAN :
          /\ valid => hasBody
          /\ gate' = [NoRequest EXCEPT !.pc = "arrived", !.method = method,
                                       !.hasBody = hasBody, !.valid = valid]
    /\ UNCHANGED <<now, store, rret, lcfg, admitted, promise>>
    /\ UNCHANGED <<cacheVars, retryVars, mergeVars, throttleVars, timerVars, overpassVars, tomtomVars>>

\* middleware(request)
Middleware ==
    /\ gate.pc = "arrived"
    /\ CheckStore("global:ip", GlobalLimit, GateWindowMs)
    /\ LET res == CheckResult("global:ip", GlobalLimit, GateWindowMs) IN
       IF GateOpen(res)
       THEN gate' = [gate EXCEPT !.pc = "routed", !.global = Verdict(res)]
       ELSE gate' = [gate EXCEPT !.pc = "done", !.global = Verdict(res),
                                 !.status = 429,
                                 !.retryAfter = CalculateRetryAfter(res)]

\* The geocode handler up to `await geocodeLocation(location)`.
GeocodeHandler ==
    /\ gate.pc = "routed"
    /\ IF gate.method # "POST"
       THEN /\ gate' = [gate EXCEPT !.pc = "done", !.status = 405]
            /\ UNCHANGED <<now, store, rret, lcfg, admitted, promise>>
            /\ UNCHANGED <<cacheVars, retryVars, mergeVars, throttleVars, timerVars, overpassVars, tomtomVars>>
       ELSE /\ CheckStore("geocode:ip", GeocodeLimit, GateWindowMs)
            /\ LET res == CheckResult("geocode:ip", GeocodeLimit, GateWindowMs) IN
               IF ~GateOpen(res)
               THEN gate' = [gate EXCEPT !.pc = "done", !.route = Verdict(res),
                                         !.status = 429,
                                         !.retryAfter = CalculateRetryAfter(res)]
               \* `const { location } = req.body` throws inside the try, the
               \* catch answers 500
               ELSE IF ~gate.hasBody
               THEN gate' = [gate EXCEPT !.pc = "done", !.route = Verdict(res),
                                         !.status = 500]
               ELSE IF ~gate.valid
               THEN gate' = [gate EXCEPT !.pc = "done", !.route = Verdict(res),
                                         !.status = 400]
               ELSE gate' = [gate EXCEPT !.pc = "provider", !.route = Verdict(res),
                                         !.provider = @ + 1]

\* geocodeLocation has resolved or thrown; the statuses the handler maps its
\* outcomes to.
ProviderStatuses == {200, 404, 429, 503, 500}

ProviderReturns ==
    /\ gate.pc = "provider"
    /\ \E status \in ProviderStatuses :
          gate' = [gate EXCEPT !.pc = "done", !.status = status]
    /\ UNCHANGED <<now, store, rret, lcfg, admitted, promise>>
    /\ UNCHANGED <<cacheVars, retryVars, mergeVars, throttleVars, timerVars, overpassVars, tomtomVars>>

GateTick ==
    /\ now < GateEnd
    /\ AdvanceClock

LimiterIdle ==
    /\ LimiterEmpty
    /\ gate = NoRequest
    /\ lcfg = [id \in Idents |-> [limit |-> 1, windowMs |-> CleanupIntervalMs]]

(***************************************************************************)
(* retryWithBackoff                                                        *)
(***************************************************************************)
\* Strings that are searched are sequences of one-character strings.
UpperCase == <<"A","B","C","D","E","F","G","H","I","J","K","L","M",
               "N","O","P","Q","R","S","T","U","V","W","X","Y","Z">>
LowerCase == <<"a","b","c","d","e","f","g","h","i","j","k","l","m",
               "n","o","p","q","r","s","t","u","v","w","x","y","z">>

\* String.prototype.toLowerCase
ToLowerChar(ch) ==
    IF \E i \in 1..Len(UpperCase) : UpperCase[i] = ch
    THEN LowerCase[CHOOSE i \in 1..Len(UpperCase) : UpperCase[i] = ch]
    ELSE ch
ToLowerCase(str) == [i \in 1..Len(str) |-> ToLowerChar(str[i])]

\* String.prototype.includes
Includes(str, sub) ==
    \E i \in 0..(Len(str) - Len(sub)) : SubSeq(str, i + 1, i + Len(sub)) = sub

WordNetwork == <<"n","e","t","w","o","r","k">>
WordFetch == <<"f","e","t","c","h">>
WordTimeout == <<"t","i","m","e","o","u","t">>

\* DEFAULT_CONFIG
DefaultStatusCodes == {429, 500, 502, 503, 504}
DefaultErrorCodes == {"ECONNRESET", "ETIMEDOUT", "ENOTFOUND", "EAI_AGAIN", "ECONNREFUSED"}
DefaultConfig(maxAttempts) ==
    [maxAttempts |-> maxAttempts,
     initialDelay |-> 1000,
     maxDelay |-> 10000,
     retryableStatusCodes |-> DefaultStatusCodes,
     retryableErrors |-> DefaultErrorCodes]

\* What the wrapped operation can throw: status is error.response?.status
\* (0 when there is no response), code is error.code ("" when absent).
HttpError(status, msg) == [status |-> status, code |-> "", message |-> msg, name |-> "Error"]
MsgServer == <<"S","e","r","v","i","c","e"," ","U","n","a","v","a","i","l","a","b","l","e">>
MsgBadRequest == <<"B","a","d"," ","R","e","q","u","e","s","t">>
MsgFetchFailed == <<"F","e","t","c","h"," ","f","a","i","l","e","d">>
MsgAborted == <<"a","b","o","r","t","e","d">>
MsgInvalidJson == <<"I","n","v","a","l","i","d"," ","J","S","O","N">>
Errors ==
    { HttpError(503, MsgServer),
      HttpError(429, MsgServer),
      HttpError(400, MsgBadRequest),
      [status |-> 0, code |-> "ECONNRESET", message |-> MsgAborted, name |-> "Error"],
      [status |-> 0, code |-> "EACCES", message |-> MsgFetchFailed, name |-> "Error"],
      [status |-> 0, code |-> "", message |-> MsgFetchFailed, name |-> "TypeError"],
      [status |-> 0, code |-> "", message |-> MsgAborted, name |-> "AbortError"],
      [status |-> 0, code |-> "", message |-> MsgInvalidJson, name |-> "SyntaxError"] }

NoError == [status |-> 0, code |-> "", message |-> <<>>, name |-> "undefined"]
\* `new Error('Retry failed with unknown error')`
UnknownError == [status |-> 0, code |-> "",
                 message |-> <<"R","e","t","r","y"," ","f","a","i","l","e","d"," ",
                               "w","i","t","h"," ","u","n","k","n","o","w","n"," ",
                               "e","r","r","o","r">>,
                 name |-> "Error"]

\* Math.random() * 100 lies in [0, 100): its whole part is any of 0, ..., 99.
Jitters == 0..99

\* The sum initialDelay * 2^attempt + jitter is rounded to a double before
\* the floor: a jitter that lies closer to the next whole number than the
\* doubles around the sum can tell makes the sum that whole number (the
\* doubles near 1000 are 2^-43 apart, those below 100 are 2^-46 apart).
\* What the floor leaves of the jitter is therefore any of 0, ..., 100.
Roundings == {0, 1}
JitterSums == {jitter + up : jitter \in Jitters, up \in Roundings}

Pow2Flat(n) == 1

\* Math.pow(2, attempt)
RECURSIVE Pow2(_)
Pow2(n) == IF n = 0 THEN 1 ELSE 2 * Pow2(n - 1)

Min(a, b) == IF a < b THEN a ELSE b

CalculateDelayUncapped(att, config, jitter) ==
    config.initialDelay * Pow2(att) + jitter

\* calculateDelay: floor(min(initialDelay * 2^attempt + jitter, maxDelay)).
\* jitter is what the floor leaves of Math.random() * 100 in the rounded
\* sum; the other terms are whole numbers.
CalculateDelay(att, config, jitter) ==
    Min(config.initialDelay * Pow2(att) + jitter, config.maxDelay)

\* isRetryableError
IsRetryableError(error, config) ==
    IF error.status # 0 THEN error.status \in config.retryableStatusCodes
    ELSE IF error.code # "" THEN error.code \in config.retryableErrors
    ELSE IF /\ Len(error.message) > 0
            /\ \/ Includes(ToLowerCase(error.message), WordNetwork)
               \/ Includes(ToLowerCase(error.message), WordFetch)
               \/ Includes(ToLowerCase(error.message), WordTimeout)
         THEN TRUE
    ELSE error.name \in {"AbortError", "TimeoutError"}

IsLastAttemptEarly(att, config) == att = config.maxAttempts - 2

\* `attempt === finalConfig.maxAttempts - 1`
IsLastAttempt(att, config) == att = config.maxAttempts - 1

GiveUpAlways(shouldRetry, isLastAttempt) == TRUE

GiveUpOnLastOnly(shouldRetry, isLastAttempt) == isLastAttempt

\* `if (!shouldRetry || isLastAttempt)`: the error is rethrown, no sleep
GiveUp(shouldRetry, isLastAttempt) == ~shouldRetry \/ isLastAttempt

\* The answer of the operation's n-th invocation.
Outcome(n) ==
    IF n <= Len(script.fails)
    THEN [ok |-> FALSE, error |-> script.fails[n], value |-> Null]
    ELSE [ok |-> TRUE, error |-> NoError, value |-> script.value]

\* One pass of the loop body: `await fn()` and, on failure, the catch block
\* up to the throw or to the sleep.
RetryAttempt ==
    /\ rpc = "call"
    /\ attempt < rcfg.maxAttempts
    /\ calls' = calls + 1
    /\ LET out == Outcome(calls + 1) IN
       IF out.ok THEN
            /\ rpc' = "returned"
            /\ rresult' = [value |-> out.value, error |-> NoError]
            /\ UNCHANGED <<lastError, totalDelay, sleeps>>
       ELSE IF GiveUp(IsRetryableError(out.error, rcfg), IsLastAttempt(attempt, rcfg)) THEN
            /\ lastError' = out.error
            /\ rpc' = "thrown"
            /\ rresult' = [value |-> Null, error |-> out.error]
            /\ UNCHANGED <<totalDelay, sleeps>>
       ELSE \E jitter \in JitterSums :
            LET delay == CalculateDelay(attempt, rcfg, jitter) IN
            /\ lastError' = out.error
            /\ totalDelay' = totalDelay + delay
            /\ sleeps' = Append(sleeps, delay)
            /\ rpc' = "sleep"
            /\ UNCHANGED rresult
    /\ UNCHANGED <<rcfg, script, attempt>>
    /\ UNCHANGED <<now, cacheVars, limiterVars, mergeVars, throttleVars, timerVars, overpassVars, tomtomVars>>

\* `await sleep(delay)` is over: `attempt++` and back to the loop test.
RetryWake ==
    /\ rpc = "sleep"
    /\ attempt' = attempt + 1
    /\ rpc' = "call"
    /\ UNCHANGED <<rcfg, script, calls, lastError, totalDelay, sleeps, rresult>>
    /\ UNCHANGED <<now, cacheVars, limiterVars, mergeVars, throttleVars, timerVars, overpassVars, tomtomVars>>

\* The loop test fails: `throw lastError || new Error(...)`.
RetryFallThrough ==
    /\ rpc = "call"
    /\ ~(attempt < rcfg.maxAttempts)
    /\ rpc' = "thrown"
    /\ rresult' = [value |-> Null,
                   error |-> IF lastError # NoError THEN lastError ELSE UnknownError]
    /\ UNCHANGED <<rcfg, script, attempt, calls, lastError, totalDelay, sleeps>>
    /\ UNCHANGED <<now, cacheVars, limiterVars, mergeVars, throttleVars, timerVars, overpassVars, tomtomVars>>

RetryStart ==
    /\ rpc = "call"
    /\ attempt = 0
    /\ calls = 0
    /\ lastError = NoError
    /\ totalDelay = 0
    /\ sleeps = <<>>
    /\ rresult = [value |-> Null, error |-> NoError]

RetryIdle ==
    /\ rcfg = DefaultConfig(3)
    /\ script = [fails |-> <<>>, value |-> "v1"]
    /\ RetryStart

FailSeqs == UNION {[1..n -> Errors] : n \in 0..MaxFails}

(***************************************************************************)
(* The search pass: searchMultipleQueries (TomTom) and the search-venues   *)
(* handler (Overpass)                                                      *)
(***************************************************************************)
PlaceIds == {"p1", "p2"}
Sites == {"tomtom", "overpass"}
Pending == [state |-> "pending", venues |-> <<>>]
Failed == [state |-> "failed", venues |-> <<>>]

\* The n-th venue of query q's answer: its identity, and which answer it is.
\* convertToVenue fills rating, photos and reviews from the place details,
\* `details?.rating || 0`, `photos || []`, `reviews` or []; place p1 has
\* details, for the others the details call answered null.
NoDetails == [rating |-> 0, photos |-> <<>>, reviews |-> <<>>]
DetailsOf(pid) ==
    IF pid = "p1" THEN [rating |-> 4, photos |-> <<"photo">>, reviews |-> <<>>]
    ELSE NoDetails
SliceAll(list, n) == list

\* Array.prototype.slice(0, n)
Slice(list, n) == SubSeq(list, 1, Min(n, Len(list)))

\* `reviews.slice(0, 5)`, `details.photos.slice(0, 5)`, `venues.slice(0, 20)`
TopReviews == 5
TopPhotos == 5
EnrichLimit == 20

\* convertToVenue(poi, details, photos), the photos given with the details
ConvertToVenue(pid, details, origin) ==
    [placeId |-> pid, from |-> origin, rating |-> details.rating,
     photos |-> details.photos, reviews |-> Slice(details.reviews, TopReviews)]

\* The details as searchAndEnrichVenues hands them to convertToVenue: the
\* photo URLs are made of the first five photo ids.
WithPhotos(details) == [details EXCEPT !.photos = Slice(@, TopPhotos)]

\* TOMTOM_DAILY_LIMIT and checkTomTomRateLimit
DailyLimit == 2500
UnderDailyLimitAlways(count) == TRUE
UnderDailyLimit(count) == count < DailyLimit

\* tomtomRequestCount after n more calls that each test the limit first
Counted(count, n) ==
    IF count + n <= DailyLimit THEN count + n
    ELSE IF count < DailyLimit THEN DailyLimit ELSE count

\* The n-th venue of query q's answer. When the search has answered, the
\* TomTom pass starts the getPlaceDetails calls of the answer in order, each
\* one counting a request unless the daily limit is reached, in which case
\* it returns null.
Venue(pid, q, n) ==
    ConvertToVenue(pid,
                   IF msite = "tomtom" /\ ~UnderDailyLimit(tt.count + n - 1)
                   THEN NoDetails ELSE WithPhotos(DetailsOf(pid)),
                   <<q, n>>)

\* A provider call answers with a venue list or fails.
Answer(q, pids) == [state |-> "ok", venues |-> [n \in 1..Len(pids) |-> Venue(pids[n], q, n)]]
PidSeqs == UNION {[1..n -> PlaceIds] : n \in 0..MaxResults}
PlanItems == {[fails |-> TRUE, pids |-> <<>>]} \cup
             {[fails |-> FALSE, pids |-> pids] : pids \in PidSeqs}
Plans == UNION {[1..nq -> PlanItems] : nq \in 0..MaxQueries}

SettleAbortive(q) ==
    IF \E r \in 1..Len(plan) : plan[r].fails THEN Failed ELSE Answer(q, plan[q].pids)

\* What the pass receives for query q:
\*   searchAndEnrichVenues(...).catch(() => []) and searchVenuesOverpass's
\*   `return []` after all servers failed both turn a failure into no venues.
Settle(q) == IF plan[q].fails THEN Failed ELSE Answer(q, plan[q].pids)

RECURSIVE FlatReversed(_)
FlatReversed(lists) ==
    IF Len(lists) = 0 THEN <<>> ELSE FlatReversed(Tail(lists)) \o Head(lists).venues

\* Array.prototype.flat over the per-query lists, in query order.
RECURSIVE Flat(_)
Flat(lists) == IF Len(lists) = 0 THEN <<>> ELSE Head(lists).venues \o Flat(Tail(lists))

HasPid(list, pid) == \E i \in 1..Len(list) : list[i].placeId = pid

KeepAll(list, acc) == acc \o list

\* `if (!venueMap.has(venue.placeId)) venueMap.set(venue.placeId, venue)`
RECURSIVE DedupVenues(_, _)
DedupVenues(list, acc) ==
    IF Len(list) = 0 THEN acc
    ELSE IF ~HasPid(acc, Head(list).placeId)
         THEN DedupVenues(Tail(list), Append(acc, Head(list)))
         ELSE DedupVenues(Tail(list), acc)

\* `if (v.placeId && !rawVenuesMap.has(v.placeId)) rawVenuesMap.set(v.placeId, v)`
RECURSIVE DedupRaw(_, _)
DedupRaw(list, acc) ==
    IF Len(list) = 0 THEN acc
    ELSE IF Head(list).placeId # "" /\ ~HasPid(acc, Head(list).placeId)
         THEN DedupRaw(Tail(list), Append(acc, Head(list)))
         ELSE DedupRaw(Tail(list), acc)

\* searchPlaces up to its fetch, for the q-th query of a pass that found the
\* counter at count: without the key it throws, which searchAndEnrichVenues
\* catches and turns into []; at the daily limit it returns []; otherwise it
\* counts a request and awaits the provider.
Capped == [state |-> "capped", venues |-> <<>>]
Launch(q, count) ==
    IF msite = "overpass" THEN Pending
    ELSE IF ~tt.apiKey THEN Failed
    ELSE IF ~UnderDailyLimit(count + q - 1) THEN Capped
    ELSE Pending

\* searchMultipleQueries: `queries.map(...)` starts every call at once, each
\* running up to its first await.
Dispatch ==
    /\ mpc = "start"
    /\ qres' = [q \in 1..Len(plan) |-> Launch(q, tt.count)]
    /\ tt' = IF msite = "tomtom" /\ tt.apiKey
             THEN [tt EXCEPT !.count = Counted(@, Len(plan))] ELSE tt
    /\ mpc' = "collect"
    /\ UNCHANGED <<msite, plan, merged, hpc, found, resp, corder>>
    /\ UNCHANGED <<now, cacheVars, limiterVars, retryVars, throttleVars, timerVars, overpassVars, tomtomVars>>

\* A call whose promise has not settled: its search fetch, or the detail
\* fetches of its answer, are in flight.
Unsettled(r) == r.state \in {"pending", "enriching"}

\* The search fetch of TomTom call q settles. A failure is caught and the
\* call resolves with []; an empty answer resolves the call; otherwise
\* `pois.map(async ...)` runs every getPlaceDetails(poi.id) up to its fetch,
\* counting the requests. When none of them started a fetch (all at the
\* daily limit) the call resolves before any other fetch can settle.
SearchSettles(q) ==
    /\ mpc = "collect"
    /\ msite = "tomtom"
    /\ qres[q] = Pending
    /\ LET answer == Settle(q)
           counted == Counted(tt.count, Len(answer.venues))
       IN  /\ tt' = [tt EXCEPT !.count = counted]
           /\ IF counted > tt.count
              THEN /\ qres' = [qres EXCEPT ![q] = [answer EXCEPT !.state = "enriching"]]
                   /\ UNCHANGED corder
              ELSE /\ qres' = [qres EXCEPT ![q] = answer]
                   /\ corder' = Append(corder, q)
    /\ UNCHANGED <<msite, plan, mpc, merged, hpc, found, resp>>
    /\ UNCHANGED <<now, cacheVars, limiterVars, retryVars, throttleVars, timerVars, overpassVars, tomtomVars>>

\* One call settles. The TomTom calls run in parallel and settle in any
\* order, each once the detail fetches of its answer have settled; the
\* handler awaits its Overpass calls one after the other.
Complete(q) ==
    /\ mpc = "collect"
    /\ IF msite = "tomtom"
       THEN /\ qres[q].state = "enriching"
            /\ qres' = [qres EXCEPT ![q].state = "ok"]
       ELSE /\ qres[q] = Pending
            /\ \A r \in 1..(q - 1) : qres[r] # Pending
            /\ qres' = [qres EXCEPT ![q] = Settle(q)]
    /\ corder' = Append(corder, q)
    /\ UNCHANGED <<msite, plan, mpc, merged, hpc, found, resp, tt>>
    /\ UNCHANGED <<now, cacheVars, limiterVars, retryVars, throttleVars, timerVars, overpassVars, tomtomVars>>

JoinedFirst(results) == \E q \in 1..Len(results) : ~Unsettled(results[q])

\* `await Promise.all(searchPromises)` resolves once every call has settled.
Joined(results) == \A q \in 1..Len(results) : ~Unsettled(results[q])

\* Promise.all has resolved (or the handler's loop has ended): flatten and
\* deduplicate by placeId. searchMultipleQueries returns the list to the
\* search-venues handler that awaits it.
Merge ==
    /\ mpc = "collect"
    /\ Joined(qres)
    /\ merged' = IF msite = "tomtom" THEN DedupVenues(Flat(qres), <<>>)
                 ELSE Slice(DedupRaw(Flat(qres), <<>>), EnrichLimit)
    /\ mpc' = "merged"
    /\ IF msite = "tomtom"
       THEN found' = merged' /\ hpc' = "searched"
       ELSE UNCHANGED <<found, hpc>>
    /\ UNCHANGED <<msite, plan, qres, resp, corder, tt>>
    /\ UNCHANGED <<now, cacheVars, limiterVars, retryVars, throttleVars, timerVars, overpassVars, tomtomVars>>

(***************************************************************************)
(* The search-venues handler once searchMultipleQueries has returned       *)
(***************************************************************************)
MinFiltered == 5
ResponseLimit == 15

NoResponse == [status |-> 0, code |-> "", venues |-> <<>>]

\* `venue.rating > 0 || venue.photos.length > 0 || venue.reviews.length > 0`
HasGoodData(venue) ==
    venue.rating > 0 \/ Len(venue.photos) > 0 \/ Len(venue.reviews) > 0

FilterVenues(venues) == SelectSeq(venues, HasGoodData)

EnoughFilteredAny(n) == n >= 1

\* `filteredVenues.length >= 5`
EnoughFiltered(n) == n >= MinFiltered

\* `filteredVenues.length >= 5 ? filteredVenues : venues`
FinalVenues(venues) ==
    IF EnoughFiltered(Len(FilterVenues(venues))) THEN FilterVenues(venues) ELSE venues

ResponseNotFound(venues) ==
    IF Len(venues) = 0 THEN [status |-> 404, code |-> "", venues |-> <<>>]
    ELSE [status |-> 200, code |-> "",
          venues |-> Slice(FinalVenues(venues), ResponseLimit)]

\* The handler from `if (venues.length === 0)` to its last `res.status(200)`.
Response(venues) ==
    IF Len(venues) = 0 THEN [status |-> 200, code |-> "", venues |-> <<>>]
    ELSE [status |-> 200, code |-> "",
          venues |-> Slice(FinalVenues(venues), ResponseLimit)]

Respond ==
    /\ hpc = "searched"
    /\ resp' = Response(found)
    /\ hpc' = "responded"
    /\ UNCHANGED <<msite, plan, qres, mpc, merged, found, corder, tt>>
    /\ UNCHANGED <<now, cacheVars, limiterVars, retryVars, throttleVars, timerVars, overpassVars, tomtomVars>>

HandlerIdle ==
    /\ found = <<>>
    /\ resp = NoResponse

MergeStart ==
    /\ qres = <<>>
    /\ mpc = "start"
    /\ merged = <<>>
    /\ hpc = "searching"
    /\ corder = <<>>
    /\ HandlerIdle

MergeIdle ==
    /\ msite = "tomtom"
    /\ plan = <<>>
    /\ tt = [apiKey |-> TRUE, count |-> 0]
    /\ MergeStart

(***************************************************************************)
(* searchPlaces and getPlaceDetails, called concurrently                   *)
(***************************************************************************)
TomTomCallers == {"a", "b"}
TomTomFns == {"searchPlaces", "getPlaceDetails"}
NoCall == [fn |-> "", pc |-> "idle", ret |-> ""]

\* `return []` in searchPlaces, `return null` in getPlaceDetails
AtLimit(fn) == IF fn = "searchPlaces" THEN "[]" ELSE "null"

\* A call up to its first await: the key test, checkTomTomRateLimit(),
\* `tomtomRequestCount++`, and fetch(url) started.
TomTomCall(c, fn) ==
    /\ req[c].pc = "idle"
    /\ IF ~tt.apiKey
       THEN /\ req' = [req EXCEPT ![c] = [fn |-> fn, pc |-> "threw", ret |-> "nokey"]]
            /\ UNCHANGED <<tt, tlog>>
       ELSE IF ~UnderDailyLimit(tt.count)
       THEN /\ req' = [req EXCEPT ![c] = [fn |-> fn, pc |-> "returned",
                                           ret |-> AtLimit(fn)]]
            /\ UNCHANGED <<tt, tlog>>
       ELSE /\ tt' = [tt EXCEPT !.count = @ + 1]
            /\ tlog' = [tlog EXCEPT !.issued = @ + 1]
            /\ req' = [req EXCEPT ![c] = [fn |-> fn, pc |-> "fetching", ret |-> ""]]
    /\ UNCHANGED <<msite, plan, qres, mpc, merged, hpc, found, resp, corder>>
    /\ UNCHANGED <<now, cacheVars, limiterVars, retryVars, throttleVars, timerVars, overpassVars>>

\* The fetch settles: a good answer, a non-ok status, or a rejected fetch.
\* searchPlaces rethrows, getPlaceDetails returns null.
TomTomSettled(fn, ok) ==
    IF ok THEN [fn |-> fn, pc |-> "returned", ret |-> "data"]
    ELSE IF fn = "searchPlaces" THEN [fn |-> fn, pc |-> "threw", ret |-> "failed"]
    ELSE [fn |-> fn, pc |-> "returned", ret |-> "null"]

TomTomSettle(c) ==
    /\ req[c].pc = "fetching"
    /\ \E ok \in BOOLEAN : req' = [req EXCEPT ![c] = TomTomSettled(req[c].fn, ok)]
    /\ UNCHANGED <<tt, tlog>>
    /\ UNCHANGED <<msite, plan, qres, mpc, merged, hpc, found, resp, corder>>
    /\ UNCHANGED <<now, cacheVars, limiterVars, retryVars, throttleVars, timerVars, overpassVars>>

\* The caller has its answer and may call again.
TomTomNext(c) ==
    /\ req[c].pc \in {"returned", "threw"}
    /\ req' = [req EXCEPT ![c] = NoCall]
    /\ UNCHANGED <<tt, tlog>>
    /\ UNCHANGED <<msite, plan, qres, mpc, merged, hpc, found, resp, corder>>
    /\ UNCHANGED <<now, cacheVars, limiterVars, retryVars, throttleVars, timerVars, overpassVars>>

\* resetTomTomRequestCount()
ResetTomTomRequestCount ==
    /\ tt.count > 0
    /\ tt' = [tt EXCEPT !.count = 0]
    /\ tlog' = [base |-> 0, issued |-> 0]
    /\ UNCHANGED req
    /\ UNCHANGED <<msite, plan, qres, mpc, merged, hpc, found, resp, corder>>
    /\ UNCHANGED <<now, cacheVars, limiterVars, retryVars, throttleVars, timerVars, overpassVars>>

TomTomIdle ==
    /\ req = [c \in TomTomCallers |-> NoCall]
    /\ tlog = [base |-> 0, issued |-> 0]

(***************************************************************************)
(* LRUCache                                                                *)
(***************************************************************************)
KeysOf(c) == {c[i].key : i \in 1..Len(c)}

\* Map.get / Map.has: the position of the key in the map, 0 when absent.
IndexOf(c, k) == IF k \in KeysOf(c) THEN CHOOSE i \in 1..Len(c) : c[i].key = k ELSE 0

\* Map.delete: the other entries keep their order.
RemoveAt(c, i) == SubSeq(c, 1, i - 1) \o SubSeq(c, i + 1, Len(c))

\* Map.set: an existing key keeps its position, a new key goes last.
MapSet(c, e) ==
    IF e.key \in KeysOf(c) THEN [c EXCEPT ![IndexOf(c, e.key)] = e] ELSE Append(c, e)

\* `entry.accessTime = Date.now()` on a hit.
Touch(e, t) == [e EXCEPT !.accessTime = t]

IsExpiredEarly(e, t) == t >= e.expires

IsExpiredLate(e, t) == t > e.expires + 1

\* `Date.now() > entry.expires`
IsExpired(e, t) == t > e.expires

\* The loop of evictLRU: oldestIdx = 0 stands for oldestKey = null with
\* oldestTime = Infinity; a later entry replaces the candidate only when its
\* accessTime is strictly smaller.
RECURSIVE ScanOldest(_, _, _)
ScanOldest(c, i, oldestIdx) ==
    IF i > Len(c) THEN oldestIdx
    ELSE IF oldestIdx = 0 \/ c[i].accessTime < c[oldestIdx].accessTime
         THEN ScanOldest(c, i + 1, i)
         ELSE ScanOldest(c, i + 1, oldestIdx)

\* `if (oldestKey)`: null and the empty string are both falsy.
EvictIdx(c) ==
    LET i == ScanOldest(c, 1, 0)
    IN  IF i # 0 /\ c[i].key # "" THEN i ELSE 0

\* evictLRU: the map after the eviction.
EvictLRU(c) == IF EvictIdx(c) = 0 THEN c ELSE RemoveAt(c, EvictIdx(c))

NeedsEvictWhenFull(c, k) == Len(c) >= MaxSize

\* `this.cache.size >= this.maxSize && !this.cache.has(key)`
NeedsEvict(c, k) == Len(c) >= MaxSize /\ k \notin KeysOf(c)

NoTrack == [on |-> FALSE, k |-> "", fresh |-> {}, spare |-> 0]

Older(c, k, t) == Cardinality({i \in 1..Len(c) : c[i].key # k /\ c[i].accessTime < t})
FreeSlots(c) == IF Len(c) < MaxSize THEN MaxSize - Len(c) ELSE 0

MissUncounted(st) == st

\* `this.stats.misses++`
Miss(st) == [st EXCEPT !.misses = @ + 1]

\* History: the value and expiry of the latest set of each key, forgotten
\* when the key is evicted for capacity, the cache is cleared, or the expiry
\* has passed.
NoSet == [live |-> FALSE, value |-> Null, expires |-> 0]
\* It also keeps the Date.now() the sweep timer's callback last read (0: it
\* has not run).
NoHist == [gets |-> 0, missed |-> 0, swept |-> 0,
           latest |-> [k \in Keys |-> NoSet]]
Forget(h, gone) ==
    [h EXCEPT !.latest = [k \in Keys |-> IF k \in gone THEN NoSet ELSE h.latest[k]]]

\* A call that reads Date.now() twice: the second read gives the value of
\* the first or a later one, the clock having turned in between.
SecondReads == now..(now + MaxGapMs)

\* get(key): the expiry is tested against a first read of the clock, the
\* accessTime of a hit is a second read.
Get(k) ==
    /\ hist.gets < MaxLookups
    /\ LET i == IndexOf(cache, k) IN
       IF i = 0 THEN
            /\ stats' = Miss(stats)
            /\ cret' = [op |-> "get", key |-> k, val |-> Null, why |-> "absent"]
            /\ track' = NoTrack
            /\ UNCHANGED <<cache, now>>
       ELSE IF IsExpired(cache[i], now) THEN
            /\ cache' = RemoveAt(cache, i)
            /\ stats' = Miss(stats)
            /\ cret' = [op |-> "get", key |-> k, val |-> Null, why |-> "expired"]
            /\ track' = NoTrack
            /\ UNCHANGED now
       ELSE \E second \in SecondReads :
            /\ cache' = MapSet(cache, Touch(cache[i], second))
            /\ stats' = [stats EXCEPT !.hits = @ + 1]
            /\ cret' = [op |-> "get", key |-> k, val |-> cache[i].value, why |-> "hit"]
            /\ track' = [on |-> TRUE, k |-> k, fresh |-> {},
                         spare |-> Older(cache, k, second) + FreeSlots(cache)]
            /\ now' = second
    /\ hist' = [hist EXCEPT !.gets = @ + 1,
                            !.missed = IF cret'.val = Null THEN @ + 1 ELSE @]
    /\ UNCHANGED <<limiterVars, retryVars, mergeVars, throttleVars, timerVars, overpassVars, tomtomVars>>

\* set(key, value, ttlMs): expires comes from a first read of the clock,
\* accessTime from a second one.
Set(k, v, ttl) ==
    /\ stats.evictions < MaxEvictions
    /\ \E second \in SecondReads :
       LET evict == NeedsEvict(cache, k)
           c1 == IF evict THEN EvictLRU(cache) ELSE cache
           entry == [key |-> k, value |-> v, expires |-> now + ttl,
                     accessTime |-> second]
       IN  /\ now' = second
           /\ cache' = MapSet(c1, entry)
           /\ stats' = IF evict /\ EvictIdx(cache) # 0
                       THEN [stats EXCEPT !.evictions = @ + 1] ELSE stats
           /\ cret' = [op |-> "set", key |-> k, val |-> Null,
                       why |-> IF evict THEN "full" ELSE "room"]
           /\ track' = IF track.on /\ k \notin KeysOf(cache) /\ k # track.k
                          /\ k \notin track.fresh
                       THEN [track EXCEPT !.fresh = @ \cup {k}]
                       ELSE NoTrack
           /\ hist' = [Forget(hist, KeysOf(cache) \ KeysOf(c1)) EXCEPT
                         !.latest[k] = [live |-> TRUE, value |-> v,
                                        expires |-> now + ttl]]
    /\ UNCHANGED <<limiterVars, retryVars, mergeVars, throttleVars, timerVars, overpassVars, tomtomVars>>

HasTouching(k) ==
    /\ LET i == IndexOf(cache, k) IN
       IF i = 0 THEN
            /\ cret' = [op |-> "has", key |-> k, val |-> "false", why |-> "absent"]
            /\ UNCHANGED cache
       ELSE IF IsExpired(cache[i], now) THEN
            /\ cache' = RemoveAt(cache, i)
            /\ cret' = [op |-> "has", key |-> k, val |-> "false", why |-> "expired"]
       ELSE
            /\ cret' = [op |-> "has", key |-> k, val |-> "true", why |-> "hit"]
            /\ cache' = MapSet(cache, Touch(cache[i], now))
    /\ track' = NoTrack
    /\ UNCHANGED <<now, stats, hist>>
    /\ UNCHANGED <<limiterVars, retryVars, mergeVars, throttleVars, timerVars, overpassVars, tomtomVars>>

\* has(key)
Has(k) ==
    /\ LET i == IndexOf(cache, k) IN
       IF i = 0 THEN
            /\ cret' = [op |-> "has", key |-> k, val |-> "false", why |-> "absent"]
            /\ UNCHANGED cache
       ELSE IF IsExpired(cache[i], now) THEN
            /\ cache' = RemoveAt(cache, i)
            /\ cret' = [op |-> "has", key |-> k, val |-> "false", why |-> "expired"]
       ELSE
            /\ cret' = [op |-> "has", key |-> k, val |-> "true", why |-> "hit"]
            /\ UNCHANGED cache
    /\ track' = NoTrack
    /\ UNCHANGED <<now, stats, hist>>
    /\ UNCHANGED <<limiterVars, retryVars, mergeVars, throttleVars, timerVars, overpassVars, tomtomVars>>

\* `setInterval(() => this.cleanup(), 60000)`
CacheCleanupIntervalMs == 60000

RECURSIVE SweptFirstOnly(_, _)
SweptFirstOnly(c, t) ==
    IF c = <<>> THEN c
    ELSE IF t > Head(c).expires THEN Tail(c)
    ELSE <<Head(c)>> \o SweptFirstOnly(Tail(c), t)

\* The loop of cleanup: every entry with now > entry.expires is deleted.
Swept(c, t) == SelectSeq(c, LAMBDA e : ~IsExpired(e, t))

\* cleanup(), called at any time.
Cleanup ==
    /\ cache' = Swept(cache, now)
    /\ cret' = [op |-> "cleanup", key |-> "", val |-> Null, why |-> ""]
    /\ track' = NoTrack
    /\ UNCHANGED <<now, stats, hist>>
    /\ UNCHANGED <<limiterVars, retryVars, mergeVars, throttleVars, timerVars, overpassVars, tomtomVars>>

Clear ==
    /\ cache' = <<>>
    /\ cret' = [op |-> "clear", key |-> "", val |-> Null, why |-> ""]
    /\ track' = NoTrack
    /\ hist' = Forget(hist, Keys)
    /\ UNCHANGED <<now, stats>>
    /\ UNCHANGED <<limiterVars, retryVars, mergeVars, throttleVars, timerVars, overpassVars, tomtomVars>>

Idle == [op |-> "none", key |-> "", val |-> Null, why |-> ""]

\* The calls made while the clock is watched: it does not pass MaxTime.
CacheGet(k) ==
    /\ Get(k)
    /\ now' <= MaxTime

CacheSet(k, v, ttl) ==
    /\ Set(k, v, ttl)
    /\ now' <= MaxTime

\* The clock moves between two handlers.
Tick ==
    /\ now < MaxTime
    /\ now' = now + 1
    /\ cret' = Idle
    /\ hist' = Forget(hist, {k \in Keys : hist.latest[k].expires < now'})
    /\ UNCHANGED <<cache, stats, track>>
    /\ UNCHANGED <<limiterVars, retryVars, mergeVars, throttleVars, timerVars, overpassVars, tomtomVars>>

(***************************************************************************)
(* The cache with its sweep timer: the callback runs around the moment it  *)
(* is due, and the timer is set again CacheCleanupIntervalMs ahead.        *)
(***************************************************************************)
SweepStepMs == CacheCleanupIntervalMs \div 2

\* Entries live one period of the sweep: written at a run, they expire around
\* the next one.
SweepTTLs == {CacheCleanupIntervalMs}

SweepEnd == MaxSweeps * CacheCleanupIntervalMs

\* The time of the event loop when it runs the timer: not before the timer
\* is due, and at most a millisecond ahead of the Date.now() the callback
\* then reads.
LoopTimes == sweepAt..(now + 1)

\* The setInterval callback: cleanup().  The timer runs on the clock of the
\* event loop and the callback waits for the loop to be free, so the
\* Date.now() it reads can be a millisecond before the due time, or any time
\* after it; the timer is set again one period after the time of the loop,
\* which was sampled before the callback read its own.
TimerCleanup ==
    /\ now >= sweepAt - 1
    /\ cache' = Swept(cache, now)
    /\ \E loop \in LoopTimes : sweepAt' = loop + CacheCleanupIntervalMs
    /\ cret' = [op |-> "cleanup", key |-> "", val |-> Null, why |-> ""]
    /\ track' = NoTrack
    /\ hist' = [hist EXCEPT !.swept = now]
    /\ UNCHANGED <<now, stats>>
    /\ UNCHANGED <<limiterVars, retryVars, mergeVars, throttleVars, overpassVars, tomtomVars>>

\* Time passes until the callback of the sweep runs: the Date.now() it reads
\* is a millisecond before the due time, the due time, or up to MaxLateMs
\* after it.  The clock stops MaxSweeps times.  The history keeps the sets
\* whose expiry has passed, so that their removal can be told.
SweepClock ==
    /\ now < sweepAt - 1
    /\ sweepAt < SweepEnd + SweepStepMs
    /\ now' \in (sweepAt - 1)..(sweepAt + MaxLateMs)
    /\ cret' = Idle
    /\ UNCHANGED <<cache, stats, track, hist, sweepAt>>
    /\ UNCHANGED <<limiterVars, retryVars, mergeVars, throttleVars, overpassVars, tomtomVars>>

(***************************************************************************)
(* searchVenuesOverpass: the servers are tried one after the other         *)
(***************************************************************************)
Servers == <<"overpass.kumi.systems", "overpass-api.de">>

\* What a server can answer: a JSON body with elements, named or not; an
\* HTTP error status; a fetch that throws; a body that is not JSON; a JSON
\* body without elements.
Named(id) == [id |-> id, named |-> TRUE]
Unnamed(id) == [id |-> id, named |-> FALSE]
Bodies == {<<>>, <<Named("n1")>>, <<Unnamed("n1"), Named("n2")>>}
Answers ==
    {[kind |-> "ok", status |-> 200, elements |-> b] : b \in Bodies} \cup
    {[kind |-> "status", status |-> st, elements |-> <<>>] : st \in {503, 504, 500, 429}} \cup
    {[kind |-> k, status |-> 0, elements |-> <<>>] : k \in {"network", "badjson"}} \cup
    {[kind |-> "noelements", status |-> 200, elements |-> <<>>]}

\* parseOverpassResponse: the elements with a name, as venues.
ParseOverpassResponse(elements) ==
    LET named == SelectSeq(elements, LAMBDA el : el.named)
    IN  [i \in 1..Len(named) |-> [placeId |-> named[i].id]]

NoOutcome == [done |-> FALSE, threw |-> FALSE, from |-> 0, venues |-> <<>>]

\* `continue` on 503/504 keeps lastError; the catch block sets it.
ErrorAfter(a, lastErr) ==
    IF a.kind = "status" /\ a.status \in {503, 504} THEN lastErr ELSE a.kind

OverpassStepStops(o) ==
    LET a == o.answers[o.pc] IN
    [o EXCEPT !.contacted = Append(@, o.pc),
              !.pc = 0,
              !.result = [done |-> TRUE, threw |-> FALSE,
                          from |-> IF a.kind = "ok" THEN o.pc ELSE 0,
                          venues |-> IF a.kind = "ok"
                                     THEN ParseOverpassResponse(a.elements) ELSE <<>>]]

\* One turn of the loop `for (const url of servers)`: the fetch and what
\* follows it, up to the return or to the next fetch; after the last server
\* the function returns [].
OverpassStep(o) ==
    LET a == o.answers[o.pc] IN
    IF a.kind = "ok"
    THEN [o EXCEPT !.contacted = Append(@, o.pc),
                   !.pc = 0,
                   !.result = [done |-> TRUE, threw |-> FALSE, from |-> o.pc,
                               venues |-> ParseOverpassResponse(a.elements)]]
    ELSE IF o.pc < Len(Servers)
    THEN [o EXCEPT !.contacted = Append(@, o.pc),
                   !.pc = o.pc + 1,
                   !.lastError = ErrorAfter(a, @)]
    ELSE [o EXCEPT !.contacted = Append(@, o.pc),
                   !.pc = 0,
                   !.lastError = ErrorAfter(a, @),
                   !.result = [done |-> TRUE, threw |-> FALSE, from |-> 0,
                               venues |-> <<>>]]

OverpassTry ==
    /\ ovp.pc \in 1..Len(Servers)
    /\ ovp' = OverpassStep(ovp)
    /\ UNCHANGED dd
    /\ UNCHANGED <<now, cacheVars, limiterVars, retryVars, mergeVars, throttleVars, timerVars, tomtomVars>>

OverpassStart(answers) ==
    [answers |-> answers, pc |-> 1, contacted |-> <<>>, lastError |-> "null",
     result |-> NoOutcome]

\* deduplicateBy(array, keyFn) with keyFn = v => v.placeId: the filter keeps
\* an item when the Set has not seen its key.
RECURSIVE DeduplicateByLast(_, _)
DeduplicateByLast(array, seen) ==
    IF Len(array) = 0 THEN <<>>
    ELSE IF \E i \in 2..Len(array) : array[i].placeId = Head(array).placeId
         THEN DeduplicateByLast(Tail(array), seen)
         ELSE <<Head(array)>> \o DeduplicateByLast(Tail(array), seen)

RECURSIVE DeduplicateBy(_, _)
DeduplicateBy(array, seen) ==
    IF Len(array) = 0 THEN <<>>
    ELSE IF Head(array).placeId \in seen
         THEN DeduplicateBy(Tail(array), seen)
         ELSE <<Head(array)>> \o
              DeduplicateBy(Tail(array), seen \cup {Head(array).placeId})

\* The lists deduplicated: items that share a key can differ in their name.
Items == [placeId : PlaceIds, name : {"A", "B"}]
ItemLists == UNION {[1..n -> Items] : n \in 0..MaxItems}

DedupStart(input) ==
    [pc |-> "start", input |-> input, once |-> <<>>, twice |-> <<>>,
     merged1 |-> <<>>, merged2 |-> <<>>]

\* The list is deduplicated and merged.
DedupOnce ==
    /\ dd.pc = "start"
    /\ dd' = [dd EXCEPT !.pc = "once",
                        !.once = DeduplicateBy(dd.input, {}),
                        !.merged1 = DedupVenues(dd.input, <<>>)]
    /\ UNCHANGED ovp
    /\ UNCHANGED <<now, cacheVars, limiterVars, retryVars, mergeVars, throttleVars, timerVars, tomtomVars>>

\* The result is deduplicated again, and the same results are merged twice.
DedupAgain ==
    /\ dd.pc = "once"
    /\ dd' = [dd EXCEPT !.pc = "twice",
                        !.twice = DeduplicateBy(dd.once, {}),
                        !.merged2 = DedupVenues(dd.input \o dd.input, <<>>)]
    /\ UNCHANGED ovp
    /\ UNCHANGED <<now, cacheVars, limiterVars, retryVars, mergeVars, throttleVars, timerVars, tomtomVars>>

OverpassIdle ==
    /\ ovp = OverpassStart([i \in 1..Len(Servers) |->
                               [kind |-> "ok", status |-> 200, elements |-> <<>>]])
    /\ dd = DedupStart(<<>>)

(***************************************************************************)
(* The upstream throttle: enforceRateLimit before every Nominatim request, *)
(* and RateLimiter.wait of lib/utils, which is the same code with the      *)
(* interval as a field.  Several calls are in progress at once; each runs  *)
(* up to its await without interruption and resumes when its timer fires.  *)
(***************************************************************************)
NominatimRateLimitMs == 1000

Callers == 1..MaxCallers

Intervals == {NominatimRateLimitMs, NominatimRateLimitMs \div 2}

ThrottleStepMs == NominatimRateLimitMs \div 4

ThrottleEnd == NominatimRateLimitMs + MaxThrottleTicks * ThrottleStepMs

NotCalled == [pc |-> "idle", wake |-> 0, startedAt |-> 0]

\* const waitTime = interval - (now - last)
WaitTime(t, last, ival) == ival - (t - last)

\* The call goes on to its upstream request: last = Date.now() and the
\* caller's continuation sends the request.
GoUpstream(c) ==
    /\ lastRequest' = now
    /\ callers' = [callers EXCEPT ![c] = [pc |-> "requested", wake |-> @.wake,
                                          startedAt |-> now]]

\* enforceRateLimit() / wait(), from its entry to its await, or to its end
\* when there is nothing to wait for.
EnforceRateLimit(c) ==
    /\ callers[c].pc = "idle"
    /\ IF now - lastRequest < interval
          THEN /\ callers' = [callers EXCEPT ![c] =
                       [pc |-> "waiting",
                        wake |-> now + WaitTime(now, lastRequest, interval),
                        startedAt |-> 0]]
               /\ UNCHANGED lastRequest
          ELSE GoUpstream(c)
    /\ UNCHANGED <<now, interval>>
    /\ UNCHANGED <<cacheVars, limiterVars, retryVars, mergeVars, timerVars, overpassVars, tomtomVars>>

\* The setTimeout of a waiting call fires: at its time, later, or while
\* Date.now() still reads one millisecond less than its time (the timer runs
\* on another clock than Date.now()).
TimerFires(c) ==
    /\ callers[c].pc = "waiting"
    /\ now >= callers[c].wake - 1
    /\ GoUpstream(c)
    /\ UNCHANGED <<now, interval>>
    /\ UNCHANGED <<cacheVars, limiterVars, retryVars, mergeVars, timerVars, overpassVars, tomtomVars>>

\* The millisecond before a waiting call's timer is due, when the clock
\* reaches it before its next step.
EarlyInstants ==
    {callers[c].wake - 1 : c \in {d \in Callers : callers[d].pc = "waiting"}}

\* The clock moves to its next step, stopping on the way where a timer can
\* fire early.
ThrottleTick ==
    /\ now < ThrottleEnd
    /\ LET next == (now \div ThrottleStepMs + 1) * ThrottleStepMs
       IN  now' \in {next} \cup {t \in EarlyInstants : now < t /\ t < next}
    /\ UNCHANGED throttleVars
    /\ UNCHANGED <<cacheVars, limiterVars, retryVars, mergeVars, timerVars, overpassVars, tomtomVars>>

ThrottleIdle ==
    /\ lastRequest = 0
    /\ interval = NominatimRateLimitMs
    /\ callers = [c \in Callers |-> NotCalled]

CacheIdle ==
    /\ sweepAt = CacheCleanupIntervalMs
    /\ cache = <<>>
    /\ stats = [hits |-> 0, misses |-> 0, evictions |-> 0]
    /\ cret = Idle
    /\ track = NoTrack
    /\ hist = NoHist

InitCache ==
    /\ now = 0
    /\ CacheIdle
    /\ LimiterIdle
    /\ RetryIdle
    /\ MergeIdle
    /\ ThrottleIdle
    /\ OverpassIdle
    /\ TomTomIdle

NextCache ==
    \/ \E k \in Keys : CacheGet(k)
    \/ \E k \in Keys, v \in Values, ttl \in TTLs : CacheSet(k, v, ttl)
    \/ \E k \in Keys : Has(k)
    \/ Cleanup
    \/ Clear
    \/ Tick

SpecCache == InitCache /\ [][NextCache]_vars

InitLimiter ==
    /\ now \in LimiterStarts
    /\ LimiterEmpty
    /\ gate = NoRequest
    /\ lcfg \in [Idents -> Configs]
    /\ CacheIdle
    /\ RetryIdle
    /\ MergeIdle
    /\ ThrottleIdle
    /\ OverpassIdle
    /\ TomTomIdle

NextLimiter ==
    \/ \E id \in Idents : Check(id, LimitOf(id), WindowOf(id))
    \/ \E id \in Idents : Reset(id)
    \/ Sweep
    \/ TickMs

SpecLimiter == InitLimiter /\ [][NextLimiter]_vars

GateConfig ==
    [id \in Idents |->
        IF id = "global:ip" THEN [limit |-> GlobalLimit, windowMs |-> GateWindowMs]
        ELSE [limit |-> GeocodeLimit, windowMs |-> GateWindowMs]]

InitGate ==
    /\ now \in LimiterStarts
    /\ LimiterEmpty
    /\ lcfg = GateConfig
    /\ gate = [NoRequest EXCEPT !.pc = "idle"]
    /\ CacheIdle
    /\ RetryIdle
    /\ MergeIdle
    /\ ThrottleIdle
    /\ OverpassIdle
    /\ TomTomIdle

\* One request is followed through the gates while others check the same
\* identifiers, the sweep runs and the clock moves.
NextGate ==
    \/ Arrive
    \/ Middleware
    \/ GeocodeHandler
    \/ ProviderReturns
    \/ \E id \in Idents : Check(id, LimitOf(id), WindowOf(id))
    \/ Sweep
    \/ GateTick

SpecGate == InitGate /\ [][NextGate]_vars

\* `{ ...DEFAULT_CONFIG, ...config }`: the caller overrides maxAttempts and,
\* in some calls, maxDelay.
MaxDelays == {DefaultConfig(0).maxDelay, 1500}

RetryConfigs ==
    {[DefaultConfig(m) EXCEPT !.maxDelay = d] : m \in 0..MaxAttempts, d \in MaxDelays}

\* A caller whose maxDelay equals the initial delay: every delay is the cap.
PinnedConfigs ==
    {[DefaultConfig(m) EXCEPT !.maxDelay = DefaultConfig(0).initialDelay] :
        m \in 0..MaxAttempts}

\* An operation that answers 503 n times and then succeeds.
SteadyFails == {[i \in 1..n |-> HttpError(503, MsgServer)] : n \in 0..MaxFails}

\* The calls made: every failure script under the pinned configurations;
\* under DEFAULT_CONFIG and the configurations whose delays the jitter
\* shows in, the operation that keeps answering 503.
RetryInputs ==
    (PinnedConfigs \X [fails : FailSeqs, value : Values])
    \cup (({DefaultConfig(3)}
           \cup {c \in RetryConfigs : c.maxDelay # DefaultConfig(0).maxDelay})
          \X [fails : SteadyFails, value : {"v1"}])

InitRetry ==
    /\ now = 0
    /\ \E input \in RetryInputs : rcfg = input[1] /\ script = input[2]
    /\ RetryStart
    /\ CacheIdle
    /\ LimiterIdle
    /\ MergeIdle
    /\ ThrottleIdle
    /\ OverpassIdle
    /\ TomTomIdle

NextRetry ==
    \/ RetryAttempt
    \/ RetryWake
    \/ RetryFallThrough

SpecRetry == InitRetry /\ [][NextRetry]_vars

\* The counter as earlier passes of the day left it.
CountStarts == {0, DailyLimit - 3, DailyLimit - 1, DailyLimit}

InitMerge ==
    /\ now = 0
    /\ msite \in Sites
    /\ plan \in Plans
    /\ tt \in [apiKey : BOOLEAN, count : CountStarts]
    /\ MergeStart
    /\ CacheIdle
    /\ LimiterIdle
    /\ RetryIdle
    /\ ThrottleIdle
    /\ OverpassIdle
    /\ TomTomIdle

NextMerge ==
    \/ Dispatch
    \/ \E q \in 1..Len(qres) : SearchSettles(q)
    \/ \E q \in 1..Len(qres) : Complete(q)
    \/ Merge
    \/ Respond

SpecMerge == InitMerge /\ [][NextMerge]_vars

(***************************************************************************)
(* The handler alone, on any venue list searchMultipleQueries can return:  *)
(* distinct placeIds, each venue with or without rating, photo, review.    *)
(***************************************************************************)
DetailKinds ==
    {NoDetails,
     [rating |-> 4, photos |-> <<>>, reviews |-> <<>>],
     [rating |-> 0, photos |-> <<"photo">>, reviews |-> <<>>],
     [rating |-> 0, photos |-> <<>>, reviews |-> <<"review">>]}

PoiId(i) == "poi" \o ToString(i)

\* The list of n venues whose details are of the given kinds.
VenueList(n, kinds) ==
    [i \in 1..n |-> ConvertToVenue(PoiId(i), kinds[i], <<1, i>>)]

\* Longer lists: the venues at positions lo..hi are rated and the others
\* have no details, or the other way round.
Rated == [rating |-> 4, photos |-> <<>>, reviews |-> <<>>]
LongList(n, lo, hi, inside) ==
    [i \in 1..n |->
        ConvertToVenue(PoiId(i),
                       IF (lo <= i /\ i <= hi) = inside THEN Rated ELSE NoDetails,
                       <<1, i>>)]
LongLists ==
    {LongList(n, lo, hi, inside) :
        n \in (MaxVenues + 1)..MaxLong, lo \in 1..MaxLong, hi \in 0..MaxLong,
        inside \in BOOLEAN}

InitSearch ==
    /\ now = 0
    /\ msite = "tomtom"
    /\ plan = <<>>
    /\ qres = <<>>
    /\ mpc = "start"
    /\ merged = <<>>
    /\ hpc = "searched"
    /\ \/ \E n \in 0..MaxVenues : \E kinds \in [1..n -> DetailKinds] :
              found = VenueList(n, kinds)
       \/ found \in LongLists
    /\ corder = <<>>
    /\ tt = [apiKey |-> TRUE, count |-> 0]
    /\ resp = NoResponse
    /\ CacheIdle
    /\ LimiterIdle
    /\ RetryIdle
    /\ ThrottleIdle
    /\ OverpassIdle
    /\ TomTomIdle

NextSearch == Respond

SpecSearch == InitSearch /\ [][NextSearch]_vars

\* One pass of the TomTom search-venues handler.
InitPass ==
    /\ now = 0
    /\ msite = "tomtom"
    /\ plan \in Plans
    /\ tt \in [apiKey : BOOLEAN, count : CountStarts]
    /\ MergeStart
    /\ CacheIdle
    /\ LimiterIdle
    /\ RetryIdle
    /\ ThrottleIdle
    /\ OverpassIdle
    /\ TomTomIdle

\* Every provider call that was started settles, resolved or rejected, and
\* the code awaiting a settled promise is resumed.
SpecPass ==
    /\ InitPass
    /\ [][NextMerge]_vars
    /\ WF_vars(NextMerge)

InitOverpass ==
    /\ now = 0
    /\ ovp \in {OverpassStart(answers) : answers \in [1..Len(Servers) -> Answers]}
    /\ dd = DedupStart(<<>>)
    /\ CacheIdle
    /\ LimiterIdle
    /\ RetryIdle
    /\ MergeIdle
    /\ ThrottleIdle
    /\ TomTomIdle

NextOverpass == OverpassTry

SpecOverpass == InitOverpass /\ [][NextOverpass]_vars

\* The cache under reads, writes of one value, has and the clock.
NextEntries ==
    \/ \E k \in Keys : CacheGet(k)
    \/ \E k \in Keys, ttl \in TTLs : CacheSet(k, "v1", ttl)
    \/ \E k \in Keys : Has(k)
    \/ Tick

SpecEntries == InitCache /\ [][NextEntries]_vars

InitDedup ==
    /\ now = 0
    /\ dd \in {DedupStart(input) : input \in ItemLists}
    /\ ovp = OverpassStart([i \in 1..Len(Servers) |->
                               [kind |-> "ok", status |-> 200, elements |-> <<>>]])
    /\ CacheIdle
    /\ LimiterIdle
    /\ RetryIdle
    /\ MergeIdle
    /\ ThrottleIdle
    /\ TomTomIdle

NextDedup ==
    \/ DedupOnce
    \/ DedupAgain

SpecDedup == InitDedup /\ [][NextDedup]_vars

InitQuiet ==
    /\ now = StartMs
    /\ LimiterEmpty
    /\ gate = NoRequest
    /\ lcfg \in [Idents -> Configs]
    /\ CacheIdle
    /\ RetryIdle
    /\ MergeIdle
    /\ ThrottleIdle
    /\ OverpassIdle
    /\ TomTomIdle

NextQuiet ==
    \/ \E id \in Idents : QuietCheck(id)
    \/ Sweep
    \/ QuietTick

\* The sweep's timer fires as long as the process lives, and time passes.
SpecQuiet ==
    /\ InitQuiet
    /\ [][NextQuiet]_vars
    /\ WF_vars(Sweep)
    /\ WF_vars(QuietTick)

\* Checks at times that are not whole seconds apart: within each minute the
\* clock stops once, 400 ms after its start or 400 ms before its end.
MaxMinutes == 3
OffsetsMs == {400, CleanupIntervalMs - 400}
PromiseEnd == StartMs + MaxMinutes * CleanupIntervalMs
PromiseConfigs == {[limit |-> 0, windowMs |-> CleanupIntervalMs],
                   [limit |-> 1, windowMs |-> CleanupIntervalMs],
                   [limit |-> 2, windowMs |-> 2 * CleanupIntervalMs]}

PromiseTick ==
    /\ now < PromiseEnd
    /\ now' \in IF now % CleanupIntervalMs = 0
                THEN {now + d : d \in OffsetsMs}
                ELSE {now - (now % CleanupIntervalMs) + CleanupIntervalMs}
    /\ rret' = NoResult
    /\ admitted' = [id \in Idents |->
                      SelectSeq(admitted[id],
                                LAMBDA ts : now' - ts < WindowOf(id))]
    /\ UNCHANGED <<store, lcfg, promise, gate>>
    /\ UNCHANGED <<cacheVars, retryVars, mergeVars, throttleVars, timerVars, overpassVars, tomtomVars>>

InitPromise ==
    /\ now = StartMs
    /\ store = [id \in Idents |-> Absent]
    /\ rret = NoResult
    /\ admitted = [id \in Idents |-> <<>>]
    /\ promise = [id \in Idents |-> NoPromise]
    /\ gate = NoRequest
    /\ lcfg \in {[id \in Idents |-> c] : c \in PromiseConfigs}
    /\ CacheIdle
    /\ RetryIdle
    /\ MergeIdle
    /\ ThrottleIdle
    /\ OverpassIdle
    /\ TomTomIdle

NextPromise ==
    \/ \E id \in Idents : Check(id, LimitOf(id), WindowOf(id))
    \/ \E id \in Idents : Reset(id)
    \/ Sweep
    \/ PromiseTick

SpecPromise == InitPromise /\ [][NextPromise]_vars

\* The counter starts at zero, or near the daily limit after a day's traffic.
InitTomTom ==
    /\ now = 0
    /\ msite = "tomtom"
    /\ plan = <<>>
    /\ MergeStart
    /\ tt \in [apiKey : BOOLEAN, count : CountStarts]
    /\ req = [c \in TomTomCallers |-> NoCall]
    /\ tlog = [base |-> tt.count, issued |-> 0]
    /\ CacheIdle
    /\ LimiterIdle
    /\ RetryIdle
    /\ ThrottleIdle
    /\ OverpassIdle

NextTomTom ==
    \/ \E c \in TomTomCallers, fn \in TomTomFns : TomTomCall(c, fn)
    \/ \E c \in TomTomCallers : TomTomSettle(c)
    \/ \E c \in TomTomCallers : TomTomNext(c)
    \/ ResetTomTomRequestCount

SpecTomTom == InitTomTom /\ [][NextTomTom]_vars

InitSweep ==
    /\ now = 0
    /\ CacheIdle
    /\ LimiterIdle
    /\ RetryIdle
    /\ MergeIdle
    /\ ThrottleIdle
    /\ OverpassIdle
    /\ TomTomIdle

\* The keys written and read while the timer runs.
SweepKeys == {"a", "b"}

\* The clock turns within a call made while the timer runs: before the
\* callback that is due, which then reads the later time (at most MaxLateMs
\* after the due time), or right after a run that is not the last one the
\* clock advances to.
SweepTurn ==
    \/ now' = now
    \/ now >= sweepAt - 1 /\ now' <= sweepAt + MaxLateMs
    \/ /\ now < sweepAt - 1
       /\ sweepAt < SweepEnd + SweepStepMs
       /\ now' <= hist.swept + MaxGapMs

\* A get while the timer runs.
SweepGet(k) ==
    /\ hist.gets < MaxReads
    /\ Get(k)
    /\ SweepTurn

\* A set while the timer runs.
SweepSet(k, ttl) ==
    /\ Set(k, "v1", ttl)
    /\ SweepTurn

NextSweep ==
    \/ \E k \in SweepKeys : SweepGet(k)
    \/ \E k \in SweepKeys, ttl \in SweepTTLs : SweepSet(k, ttl)
    \/ TimerCleanup
    \/ SweepClock

\* The timer fires when it is due and time does not stand still.
SpecSweep ==
    /\ InitSweep
    /\ [][NextSweep]_vars
    /\ WF_vars(TimerCleanup)
    /\ WF_vars(SweepClock)

InitThrottle ==
    /\ now = NominatimRateLimitMs
    /\ lastRequest = 0
    /\ interval \in Intervals
    /\ callers = [c \in Callers |-> NotCalled]
    /\ CacheIdle
    /\ LimiterIdle
    /\ RetryIdle
    /\ MergeIdle
    /\ OverpassIdle
    /\ TomTomIdle

NextThrottle ==
    \/ \E c \in Callers : EnforceRateLimit(c)
    \/ \E c \in Callers : TimerFires(c)
    \/ ThrottleTick

SpecThrottle == InitThrottle /\ [][NextThrottle]_vars

(***************************************************************************)
(* Properties of the cache                                                 *)
(***************************************************************************)

\* The step is a call get(k).
GetStep(k) == cret'.op = "get" /\ cret'.key = k /\ hist'.gets = hist.gets + 1

\* C1: a get never returns the value of an expired entry: whenever get
\* returns a value, the entry it was read from is in the map before and
\* after the call, and the time t the call read for its test is not past the
\* expiry of the entry (expires = time of its set + ttl).
GetNeverReturnsExpired ==
    [][\A k \in Keys :
          (GetStep(k) /\ cret'.val # Null) =>
             LET i == IndexOf(cache, k) IN
             /\ i # 0
             /\ cache[i].value = cret'.val
             /\ now <= cache[i].expires
             /\ IndexOf(cache', k) = i
             /\ cache'[i].value = cret'.val
             /\ cache'[i].expires = cache[i].expires]_vars

\* A get that found its entry expired and answered null.
GetOnExpiredWitness ==
    cret.op = "get" /\ cret.why = "expired" /\ cret.val = Null /\ stats.misses >= 1

\* A step in which set put a new key into a map already holding maxSize entries.
FullInsert == Len(cache) >= MaxSize /\ KeysOf(cache') \ KeysOf(cache) # {}

\* C7: a set of a new key into a full cache evicts exactly one entry, one whose
\* accessTime is the smallest of the map at that moment.
EvictsOneOldest ==
    [][FullInsert =>
        \E i \in 1..Len(cache) :
            /\ \A j \in 1..Len(cache) : cache[i].accessTime <= cache[j].accessTime
            /\ KeysOf(cache) \ KeysOf(cache') = {cache[i].key}
            /\ Len(cache') = Len(cache)]_vars

\* C8: a hitting get(k) refreshes the rank of k: the sets of new distinct
\* keys that follow it at once do not evict k while another entry is left to
\* be evicted in its place, that is for up to maxSize - 1 new keys (the
\* maxSize-th has only k left to evict).
SurvivesWhileOthersRemain ==
    (track.on /\ Cardinality(track.fresh) <= MaxSize - 1) => track.k \in KeysOf(cache)

\* What the code does keep: k stays cached while the number of new distinct
\* keys set right after the get does not exceed the free slots plus the
\* entries whose accessTime was strictly older than the get.
SurvivesWhileOlderRemain ==
    (track.on /\ Cardinality(track.fresh) <= track.spare) => track.k \in KeysOf(cache)

\* C9: key a was inserted before key b and the last cache call was a hitting
\* get(a); the capacity eviction that follows does not remove a.
EvictsByLastAccess ==
    [][(/\ FullInsert
        /\ track.on /\ track.fresh = {}
        /\ \E i, j \in 1..Len(cache) : i < j /\ cache[i].key = track.k)
       => track.k \in KeysOf(cache')]_vars

\* C10: the map never holds more than maxSize entries.
SizeBounded == Len(cache) <= MaxSize

\* C17: a get of a key at a time not after the expiry of its latest set,
\* with no clear and no capacity eviction of the key since, returns the value
\* of that latest set.
GetReturnsLatestSet ==
    [][\A k \in Keys :
          (/\ GetStep(k)
           /\ hist.latest[k].live
           /\ now <= hist.latest[k].expires) =>
              cret'.val = hist.latest[k].value]_vars

\* A key set twice, read at the very millisecond its latest entry expires.
GetAtExpiryWitness ==
    \E k \in Keys :
        /\ cret.op = "get" /\ cret.key = k /\ cret.val = "v2"
        /\ hist.latest[k].live /\ hist.latest[k].value = "v2"
        /\ now = hist.latest[k].expires
        /\ stats.hits = 1

\* C18: every get counts exactly once, as a miss when it returns absent
\* (key unknown, or entry expired and then deleted) and as a hit otherwise,
\* so hits + misses is the number of get calls made.
GetCountsOnce ==
    /\ stats.hits + stats.misses = hist.gets
    /\ stats.misses = hist.missed
    /\ cret.op = "get" =>
          /\ cret.why \in {"absent", "expired"} =>
                (cret.val = Null /\ cret.key \notin KeysOf(cache))
          /\ cret.why = "hit" => cret.val \in Values

\* A get that found its entry expired: counted as a miss, entry deleted.
ExpiredMissWitness ==
    /\ cret.op = "get" /\ cret.why = "expired"
    /\ stats.misses = 2 /\ stats.hits = 0 /\ hist.gets = 2
    /\ cret.key \notin KeysOf(cache)

(***************************************************************************)
(* Properties of the rate limiter                                          *)
(***************************************************************************)
Starts == {n * CleanupIntervalMs : n \in -11..MaxTicks}

AdmittedIn(id, s) ==
    Cardinality({i \in 1..Len(admitted[id]) :
                    s <= admitted[id][i] /\ admitted[id][i] < s + WindowOf(id)})

\* C2 (as claimed): for every identifier, whatever its window, no sliding
\* interval [s, s + windowMs) holds more than `limit` admissions.
SlidingWindowAnyWindow ==
    \A id \in Idents : \A s \in Starts : AdmittedIn(id, s) <= LimitOf(id)

\* C2 (amended): for every identifier whose window is at most the sweep's
\* maxWindowMs (10 minutes), no sliding interval [s, s + windowMs) holds more
\* than `limit` admissions, under any interleaving of checks and sweeps.
SlidingWindowBounded ==
    \A id \in Idents : WindowOf(id) <= MaxWindowMs =>
        \A s \in Starts : AdmittedIn(id, s) <= LimitOf(id)

\* A burst across a window boundary: `limit` admissions at two different
\* times inside one window, and the check after them denied.
BurstDeniedWitness ==
    \E id \in Idents :
        /\ WindowOf(id) <= MaxWindowMs /\ LimitOf(id) = 2
        /\ rret.id = id /\ ~rret.allowed
        /\ Len(admitted[id]) = 2
        /\ admitted[id][1] < admitted[id][2]
        /\ store[id].timestamps = admitted[id]

Surviving(id) ==
    SelectSeq(store[id].timestamps, LAMBDA ts : ~(now - ts >= WindowOf(id)))

\* C13: a check first drops the identifier's timestamps that are windowMs
\* old or older, allows exactly when fewer than `limit` survive, appends now
\* exactly when it allows, and returns remaining = limit - (count with the
\* new timestamp) when it allows and 0 when it denies.
CheckSemantics ==
    [][\A id \in Idents :
        (rret'.op = "check" /\ rret'.id = id) =>
            /\ rret'.allowed = (Len(Surviving(id)) < LimitOf(id))
            /\ rret'.allowed =>
                  /\ store'[id].timestamps = Append(Surviving(id), now)
                  /\ rret'.remaining = LimitOf(id) - (Len(Surviving(id)) + 1)
            /\ ~rret'.allowed =>
                  /\ store'[id].timestamps = Surviving(id)
                  /\ rret'.remaining = 0]_vars

\* An allowed check that filled the window after an older timestamp aged out.
ExpiredThenAllowedWitness ==
    \E id \in Idents :
        /\ rret.op = "check" /\ rret.id = id /\ rret.allowed
        /\ rret.remaining = 0 /\ LimitOf(id) = 2
        /\ Len(store[id].timestamps) = 2
        /\ store[id].timestamps[1] > 0
        /\ store[id].timestamps[1] < store[id].timestamps[2]
        /\ store[id].timestamps[2] = now

CeilDiv1000(x) == CHOOSE n \in 0..(x + 1) : n * 1000 >= x /\ (n - 1) * 1000 < x

\* C14: a denied check returns resetTime = oldest surviving timestamp +
\* windowMs and retryAfter = ceil((resetTime - now) / 1000) seconds.
RetryAfterFromOldest ==
    \A id \in Idents :
        (/\ rret.op = "check" /\ rret.id = id /\ ~rret.allowed
         /\ store[id].timestamps # <<>>) =>
            /\ rret.resetTime = store[id].timestamps[1] + WindowOf(id)
            /\ rret.retryAfter =
                  <<CeilDiv1000(store[id].timestamps[1] + WindowOf(id) - now)>>

\* A check was denied some time after the oldest timestamp it counted was
\* stored.
DeniedByOlderWitness ==
    \E id \in Idents :
        /\ rret.op = "check" /\ rret.id = id /\ ~rret.allowed
        /\ store[id].timestamps # <<>>
        /\ store[id].timestamps[1] < now
        /\ rret.resetTime = store[id].timestamps[1] + WindowOf(id)
        /\ rret.resetTime < now + WindowOf(id)
        /\ (rret.resetTime - now) % 1000 # 0
        /\ rret.retryAfter = <<(rret.resetTime - now) \div 1000 + 1>>

\* C15: a check or a reset on one identifier leaves the record of every
\* other identifier as it was, and with it the result a check on that other
\* identifier returns.
IdentifiersIndependent ==
    [][\A a \in Idents :
        (rret'.op \in {"check", "reset"} /\ rret'.id = a) =>
            \A b \in Idents \ {a} :
                /\ store'[b] = store[b]
                /\ CheckResult(b, LimitOf(b), WindowOf(b))' =
                       CheckResult(b, LimitOf(b), WindowOf(b))]_vars

\* One identifier was just reset while the other is at its limit.
ResetBesideFullWitness ==
    \E a \in Idents : \E b \in Idents \ {a} :
        /\ rret.op = "reset" /\ rret.id = a
        /\ ~store[a].present
        /\ Len(store[b].timestamps) = LimitOf(b)
        /\ ~CheckResult(b, LimitOf(b), WindowOf(b)).allowed

\* C16: the provider is called only for a request both gates allowed, the
\* route gate is consulted only after the global gate allowed, and a request
\* either gate denied is answered 429 with a Retry-After of at least one
\* second and no provider call.
GatesStacked ==
    /\ gate.provider > 0 => (gate.global = "allowed" /\ gate.route = "allowed")
    /\ gate.route # "none" => gate.global = "allowed"
    /\ (gate.global = "denied" \/ gate.route = "denied") =>
          /\ gate.pc = "done"
          /\ gate.status = 429
          /\ gate.retryAfter >= 1
          /\ gate.provider = 0

\* The global gate let the request in with room to spare, the geocode gate
\* held its 10 admissions of the minute and denied it.
RouteGateDeniedWitness ==
    /\ gate.pc = "done" /\ gate.global = "allowed" /\ gate.route = "denied"
    /\ gate.status = 429 /\ gate.provider = 0
    /\ Len(store["geocode:ip"].timestamps) = GeocodeLimit
    /\ Len(store["global:ip"].timestamps) < GlobalLimit

(***************************************************************************)
(* Properties of the retrier                                               *)
(***************************************************************************)
RetryDone == rpc \in {"returned", "thrown"}

RetryableUpTo(n) ==
    \A i \in 1..n : IsRetryableError(script.fails[i], rcfg)

\* C3: an operation that fails k times with retryable errors and then
\* succeeds, under maxAttempts > k, is invoked at most k+1 times, and the call
\* ends by returning the operation's value after exactly k+1 invocations.
RetriesUntilSuccess ==
    (Len(script.fails) < rcfg.maxAttempts /\ RetryableUpTo(Len(script.fails))) =>
        /\ calls <= Len(script.fails) + 1
        /\ RetryDone =>
            /\ rpc = "returned"
            /\ rresult.value = script.value
            /\ calls = Len(script.fails) + 1

\* Two retryable failures, two sleeps, then the value on the third invocation.
ThirdCallSucceedsWitness ==
    /\ rpc = "returned" /\ Len(script.fails) = 2 /\ rcfg.maxAttempts = 3
    /\ calls = 3 /\ Len(sleeps) = 2 /\ rresult.value = script.value

\* C4: an operation whose first maxAttempts invocations all fail with
\* retryable errors is invoked exactly maxAttempts times and the call ends by
\* throwing the error of the last invocation; no run invokes the operation
\* more than maxAttempts times.
ExhaustionThrowsLast ==
    /\ calls <= rcfg.maxAttempts
    /\ (/\ RetryDone
        /\ Len(script.fails) >= rcfg.maxAttempts
        /\ RetryableUpTo(rcfg.maxAttempts)) =>
            /\ rpc = "thrown"
            /\ calls = rcfg.maxAttempts
            /\ rcfg.maxAttempts >= 1 => rresult.error = script.fails[rcfg.maxAttempts]

\* An always-503 operation under maxAttempts = 3: three invocations, 503 thrown.
Always503Witness ==
    /\ rpc = "thrown" /\ rcfg.maxAttempts = 3 /\ calls = 3 /\ Len(sleeps) = 2
    /\ \A i \in 1..3 : script.fails[i].status = 503
    /\ rresult.error.status = 503

\* C5: when the first invocation fails with a non-retryable error the
\* operation is invoked once, nothing is slept, and that error is thrown.
NonRetryableNotRetried ==
    (/\ rcfg.maxAttempts >= 1
     /\ Len(script.fails) >= 1
     /\ ~IsRetryableError(script.fails[1], rcfg)) =>
        /\ calls <= 1
        /\ sleeps = <<>> /\ totalDelay = 0
        /\ rpc # "returned"
        /\ calls = 1 => (rpc = "thrown" /\ rresult.error = script.fails[1])
        /\ RetryDone => calls = 1

\* A 400 on the first invocation under maxAttempts = 3: thrown at once.
ClientErrorWitness ==
    /\ rpc = "thrown" /\ rcfg.maxAttempts = 3 /\ calls = 1 /\ sleeps = <<>>
    /\ rresult.error.status = 400

Listed(error) ==
    \/ error.status \in rcfg.retryableStatusCodes
    \/ error.code \in rcfg.retryableErrors

\* C19: only a failure whose status is in retryableStatusCodes or whose code
\* is in retryableErrors is followed by a sleep and another invocation; a
\* failure in neither list is thrown at once, whatever its message or name.
RetryOnlyListed ==
    /\ \A i \in 1..Len(sleeps) : Listed(script.fails[i])
    /\ \A i \in 1..Len(script.fails) :
          (calls >= i /\ ~Listed(script.fails[i]) /\ rpc # "call") =>
              (rpc = "thrown" /\ calls = i /\ rresult.error = script.fails[i])

(***************************************************************************)
(* Properties of the search pass                                           *)
(***************************************************************************)
Occurrences(list, pid) == Cardinality({i \in 1..Len(list) : list[i].placeId = pid})

\* Query q's provider call was made and answered with a venue list.
Succeeds(q) ==
    /\ ~plan[q].fails
    /\ msite = "tomtom" => (tt.apiKey /\ qres[q] # Capped)

Returned(pid) ==
    \E q \in 1..Len(plan) :
        Succeeds(q) /\ \E n \in 1..Len(plan[q].pids) : plan[q].pids[n] = pid

\* C6: the merged result holds every placeId at most once, and exactly once
\* when some successful query returned it.
MergedOncePerPlace ==
    mpc = "merged" =>
        \A pid \in PlaceIds :
            /\ Occurrences(merged, pid) <= 1
            /\ Returned(pid) => Occurrences(merged, pid) = 1

\* Two successful queries that both returned the same place.
OverlapMergedWitness ==
    /\ mpc = "merged" /\ Len(plan) = 2
    /\ \E pid \in PlaceIds :
        /\ \A q \in 1..2 : ~plan[q].fails /\ HasPid(qres[q].venues, pid)
        /\ Occurrences(merged, pid) = 1

(***************************************************************************)
(* Properties of the search-venues handler                                 *)
(***************************************************************************)
AllFail == Len(plan) >= 1 /\ \A q \in 1..Len(plan) : plan[q].fails

\* C11: when every query's provider call fails, searchMultipleQueries
\* resolves to the empty list and the handler answers 200 with no venues.
AllFailEmptyOk ==
    AllFail =>
        /\ merged = <<>>
        /\ mpc = "merged" /\ msite = "tomtom" => hpc \in {"searched", "responded"}
        /\ hpc = "responded" => (resp.status = 200 /\ resp.venues = <<>>)

\* Two queries, both failed, answered 200 with an empty venue list.
AllFailRespondedWitness ==
    /\ hpc = "responded" /\ Len(plan) = 2 /\ AllFail
    /\ \A q \in 1..2 : qres[q] = Failed
    /\ resp.status = 200 /\ resp.venues = <<>>

\* C12: whichever queries fail, every venue a non-failing query returned is
\* in the merged result (by placeId) and no merged venue comes from a
\* failing query.
FailureDoesNotAbort ==
    mpc = "merged" =>
        /\ \A q \in 1..Len(plan) :
              Succeeds(q) =>
                  \A n \in 1..Len(plan[q].pids) : HasPid(merged, plan[q].pids[n])
        /\ \A i \in 1..Len(merged) : Succeeds(merged[i].from[1])

\* One query failed, the other returned two places, both merged.
PartialFailureWitness ==
    /\ mpc = "merged" /\ Len(plan) = 2
    /\ plan[1].fails /\ ~plan[2].fails
    /\ plan[2].pids = <<"p1", "p2">>
    /\ Len(merged) = 2

Before(x, y) == x[1] < y[1] \/ (x[1] = y[1] /\ x[2] < y[2])
Origins(pid) ==
    UNION {{<<q, n>> : n \in {m \in 1..Len(qres[q].venues) :
                                qres[q].venues[m].placeId = pid}} :
              q \in 1..Len(qres)}

\* C22: of the candidates several queries returned for one placeId the
\* merge keeps the one of the earliest query of the queries array (the
\* earliest position within it), and lists the kept venues in that order,
\* in whatever order the calls settled.
FirstSeenWins ==
    mpc = "merged" =>
        /\ \A i \in 1..Len(merged) :
              /\ merged[i].from \in Origins(merged[i].placeId)
              /\ \A x \in Origins(merged[i].placeId) :
                    x = merged[i].from \/ Before(merged[i].from, x)
        /\ \A i, j \in 1..Len(merged) :
              i < j => Before(merged[i].from, merged[j].from)

\* Both queries returned p1; the second query's call settled first, and the
\* merged list still holds the first query's candidate, in first place.
LateFirstQueryWinsWitness ==
    /\ mpc = "merged" /\ msite = "tomtom" /\ Len(plan) = 2
    /\ corder = <<2, 1>>
    /\ ~plan[1].fails /\ plan[1].pids = <<"p1">>
    /\ ~plan[2].fails /\ plan[2].pids = <<"p2", "p1">>
    /\ Len(merged) = 2
    /\ merged[1].placeId = "p1" /\ merged[1].from = <<1, 1>>

PassesQuality(v) == v.rating > 0 \/ v.photos # <<>> \/ v.reviews # <<>>
Passing(list) == {i \in 1..Len(list) : PassesQuality(list[i])}
\* sub holds venues of list, in the order of list (placeIds are distinct)
PosIn(list, v) == CHOOSE i \in 1..Len(list) : list[i] = v
InOrder(sub, list) ==
    /\ \A i \in 1..Len(sub) : \E n \in 1..Len(list) : list[n] = sub[i]
    /\ \A i, j \in 1..Len(sub) : i < j => PosIn(list, sub[i]) < PosIn(list, sub[j])

\* C20: the response is the whole unfiltered list when fewer than 5 venues
\* pass the quality filter and otherwise exactly the passing venues, in
\* order (up to the cap of 15); a non-empty list never answers empty.
FilterOrFallback ==
    hpc = "responded" =>
        /\ resp.status = 200
        /\ IF Cardinality(Passing(found)) < 5
           THEN resp.venues = SubSeq(found, 1, Min(15, Len(found)))
           ELSE /\ \A i \in 1..Len(resp.venues) : PassesQuality(resp.venues[i])
                /\ Len(resp.venues) = Min(15, Cardinality(Passing(found)))
                /\ InOrder(resp.venues, found)
        /\ found # <<>> => resp.venues # <<>>

\* Six venues of which five pass: the sixth was filtered out.
FilteredWitness ==
    /\ hpc = "responded" /\ Len(found) = 6
    /\ Cardinality(Passing(found)) = 5
    /\ Len(resp.venues) = 5

First(list, n) == [i \in 1..(IF Len(list) < n THEN Len(list) ELSE n) |-> list[i]]

\* C21: the response never holds more than 15 venues, and it is the first
\* 15, in merge order, of the venues that pass the filter or of all venues.
CappedAtFifteen ==
    hpc = "responded" =>
        /\ Len(resp.venues) <= 15
        /\ \/ resp.venues = First(found, 15)
           \/ resp.venues = First(SelectSeq(found, PassesQuality), 15)

\* Seventeen venues, sixteen of them pass the filter, fifteen are returned.
TruncatedWitness ==
    /\ hpc = "responded" /\ Len(found) = 17
    /\ Cardinality(Passing(found)) = 16
    /\ Len(resp.venues) = 15
    /\ resp.venues[15] # found[15]

\* C23: with TOMTOM_API_KEY missing the pass ends in a fatal error, HTTP 500
\* with code VENUE_SERVICE_ERROR, not in an empty result.
MissingKeyIsFatal ==
    (msite = "tomtom" /\ ~tt.apiKey /\ hpc = "responded") =>
        (resp.status = 500 /\ resp.code = "VENUE_SERVICE_ERROR")

\* C24: a pass in which a query met the daily limit of 2,500 requests
\* answers with a try-later condition (an error code or a status other than
\* 200), which an empty result never carries.
QuotaIsSurfaced ==
    (hpc = "responded" /\ \E q \in 1..Len(qres) : qres[q] = Capped) =>
        (resp.status # 200 \/ resp.code # "")

(***************************************************************************)
(* Properties of has and of set on a present key                           *)
(***************************************************************************)
\* The step is a call has(k).
HasStep(k) == cret'.op = "has" /\ cret'.key = k /\ now' = now

\* C31: has(key) answers true exactly when the key is present with
\* now <= expires; it leaves the counters and every access time as they
\* were, so the entry the next eviction picks is the same, and the only
\* change it can make is to delete the queried entry when it has expired.
HasIsReadOnly ==
    [][\A k \in Keys :
          HasStep(k) =>
             LET i == IndexOf(cache, k)
                 live == i # 0 /\ now <= cache[i].expires
             IN  /\ (cret'.val = "true") <=> live
                 /\ stats' = stats
                 /\ cache' = IF i # 0 /\ ~live THEN RemoveAt(cache, i) ELSE cache
                 /\ cache' = cache => EvictIdx(cache') = EvictIdx(cache)]_vars

\* has answered true for an entry of a full cache at the moment of its
\* expiry, and the entry still carries the earlier time of its set.
HasAtExpiryWitness ==
    /\ cret.op = "has" /\ cret.val = "true"
    /\ Len(cache) = MaxSize
    /\ LET i == IndexOf(cache, cret.key) IN
          /\ cache[i].expires = now
          /\ cache[i].accessTime < now

\* The step is a call set(k, ...) for a key the map holds.
OverwriteStep(k) ==
    cret'.op = "set" /\ cret'.key = k /\ k \in KeysOf(cache)

\* C38: set(key, v, ttl) for a key already in the map evicts nothing and
\* leaves the size and the eviction counter as they were, full cache or not;
\* it replaces the value, the expiry (now + ttl, now read first) and the
\* access time (now read again) of that key, which keeps its place, and
\* touches no other entry.
OverwriteInPlace ==
    [][\A k \in Keys :
          OverwriteStep(k) =>
             LET i == IndexOf(cache, k) IN
             /\ Len(cache') = Len(cache)
             /\ stats' = stats
             /\ \A j \in 1..Len(cache) : j # i => cache'[j] = cache[j]
             /\ cache'[i].key = k
             /\ cache'[i].accessTime = now'
             /\ cache'[i].accessTime - now \in 0..MaxGapMs
             /\ cache'[i].value \in Values
             /\ \E ttl \in TTLs : cache'[i].expires = now + ttl]_vars

\* A set has just rewritten the first entry of a full cache that has never
\* evicted: the entry behind it is older than the call.
OverwriteWhenFullWitness ==
    /\ cret.op = "set"
    /\ Len(cache) = MaxSize
    /\ stats.evictions = 0
    /\ cache[1].key = cret.key /\ cache[1].accessTime = now
    /\ cache[2].accessTime < now

(***************************************************************************)
(* Properties of searchVenuesOverpass                                      *)
(***************************************************************************)
Answered(i) == ovp.answers[i].kind = "ok"

\* C33: the servers are contacted in list order; the call returns the parsed
\* answer of the first server that answers successfully and contacts none
\* after it; after any failure (503/504, another status, a thrown network or
\* parse error) it goes on to the next server; when all have failed it
\* returns an empty list, and it never throws.
OverpassFailover ==
    /\ \A i \in 1..Len(ovp.contacted) : ovp.contacted[i] = i
    /\ \A i \in 1..Len(ovp.contacted) :
          (i < Len(ovp.contacted) \/ ~ovp.result.done) => ~Answered(i)
    /\ ~ovp.result.threw
    /\ ovp.result.done =>
          IF \E i \in 1..Len(Servers) : Answered(i)
          THEN LET f == CHOOSE i \in 1..Len(Servers) :
                            Answered(i) /\ \A j \in 1..(i - 1) : ~Answered(j)
               IN  /\ Len(ovp.contacted) = f
                   /\ ovp.result.from = f
                   /\ ovp.result.venues = ParseOverpassResponse(ovp.answers[f].elements)
          ELSE /\ Len(ovp.contacted) = Len(Servers)
               /\ ovp.result.from = 0
               /\ ovp.result.venues = <<>>

\* The first server failed with a status other than 503/504 and the call
\* returned the named element of the second server's answer.
SecondServerAnswersWitness ==
    /\ ovp.result.done
    /\ ovp.answers[1].kind = "status" /\ ovp.answers[1].status = 500
    /\ ovp.contacted = <<1, 2>>
    /\ ovp.result.from = 2 /\ Len(ovp.result.venues) = 1
    /\ Len(ovp.answers[2].elements) = 2

(***************************************************************************)
(* Properties of deduplication                                             *)
(***************************************************************************)
\* The positions of list that hold the first occurrence of their key.
FirstPositions(list) ==
    {i \in 1..Len(list) : \A j \in 1..(i - 1) : list[j].placeId # list[i].placeId}

\* out is list restricted to those positions, in their order.
IsFirstOccurrences(out, list) ==
    LET idx == FirstPositions(list) IN
    /\ Len(out) = Cardinality(idx)
    /\ \A i \in idx : out[Cardinality({j \in idx : j < i}) + 1] = list[i]

\* C34: deduplication keeps the first occurrence of every key in its
\* original relative order; deduplicating the result again returns it
\* unchanged; merging the same results twice gives what merging them once
\* gives; deduplicateBy and the placeId map merge agree.
MergeIdempotent ==
    /\ dd.pc # "start" =>
          /\ IsFirstOccurrences(dd.once, dd.input)
          /\ dd.merged1 = dd.once
    /\ dd.pc = "twice" =>
          /\ dd.twice = dd.once
          /\ dd.merged2 = dd.merged1

\* A list whose first and third items share a key and differ in name has
\* been deduplicated twice.
RepeatedKeyWitness ==
    /\ dd.pc = "twice"
    /\ Len(dd.input) = 3 /\ Len(dd.once) = 2
    /\ dd.input[1].placeId = dd.input[3].placeId
    /\ dd.input[1].name # dd.input[3].name
    /\ dd.once[1] = dd.input[1]

(***************************************************************************)
(* Properties of the pass as a whole                                       *)
(***************************************************************************)
\* 0 before Dispatch, 1 while collecting, 2 once deduplicated, 3 once the
\* filtered and truncated list has been sent.
Stage ==
    IF mpc = "start" THEN 0
    ELSE IF mpc = "collect" THEN 1
    ELSE IF hpc # "responded" THEN 2
    ELSE 3

NoDuplicates(list) ==
    \A i, j \in 1..Len(list) : list[i].placeId = list[j].placeId => i = j

StepInOrder ==
    /\ Stage' \in {Stage, Stage + 1}
    /\ (Stage = 0 /\ Stage' = 1) => Len(qres') = Len(plan)
    /\ (Stage = 1 /\ Stage' = 2) =>
          /\ \A q \in 1..Len(qres) : ~Unsettled(qres[q])
          /\ qres' = qres
          /\ NoDuplicates(merged')
          /\ \A q \in 1..Len(qres) : \A n \in 1..Len(qres[q].venues) :
                HasPid(merged', qres[q].venues[n].placeId)
          /\ found' = merged'
    /\ (Stage = 2 /\ Stage' = 3) =>
          /\ found = merged /\ merged' = merged
          /\ resp'.status = 200
          /\ LET kept == SelectSeq(merged, PassesQuality)
                  final == IF Len(kept) >= MinFiltered THEN kept ELSE merged
              IN  resp'.venues = First(final, ResponseLimit)
    /\ Stage = 3 => UNCHANGED <<merged, found, resp>>

\* C30: every pass goes through Dispatch, Collect, Deduplicate, Filter and
\* Truncate in that order: deduplication starts only when every call has
\* settled, the filter reads the deduplicated list, the truncation reads
\* what the filter chose; and whatever calls succeed or fail, the response
\* is eventually sent.
PassRunsInOrder ==
    /\ [][StepInOrder]_vars
    /\ <>(hpc = "responded")

\* A pass has answered with venues after its second call settled first and
\* one of its calls failed.
MixedPassDoneWitness ==
    /\ hpc = "responded"
    /\ Len(plan) = 2 /\ corder = <<2, 1>>
    /\ \E q \in 1..2 : qres[q] = Failed
    /\ Len(resp.venues) > 0

(***************************************************************************)
(* Properties of the cache's sweep                                         *)
(***************************************************************************)
ExpiredIn(k) ==
    \E i \in 1..Len(cache) : cache[i].key = k /\ now > cache[i].expires

\* One run of the sweep leaves exactly the entries with now <= expires, in
\* their order.
CleanupExact ==
    (cret'.op = "cleanup" /\ now' = now /\ (cret.op # "cleanup" \/ cache' # cache)) =>
        /\ \A i \in 1..Len(cache') : now <= cache'[i].expires
        /\ \A i \in 1..Len(cache) :
              now <= cache[i].expires => \E j \in 1..Len(cache') : cache'[j] = cache[i]
        /\ Len(cache') <= Len(cache)

\* No entry has been expired for longer than one period of the sweep.
StaleWithinPeriod ==
    \A i \in 1..Len(cache) : now - cache[i].expires <= CacheCleanupIntervalMs

\* No entry had already expired when the sweep last ran.
StaleSinceLastRun ==
    \A i \in 1..Len(cache) : cache[i].expires >= hist.swept

\* C28 as stated: each run removes exactly the entries with now > expires,
\* and an expired entry is gone within 60 s of its expiry.
SweepRemovesWithinPeriod ==
    /\ [][CleanupExact]_vars
    /\ []StaleWithinPeriod
    /\ \A k \in SweepKeys : ExpiredIn(k) ~> ~ExpiredIn(k)

\* C28: each run of the sweep removes every entry with now > expires and no
\* entry with now <= expires, whatever the accesses were; an expired entry
\* does not outlive the first run of the sweep after its expiry, which comes
\* about one period after the run before it, later by the lateness of the
\* timer, and every expired entry eventually leaves the cache.
SweepRemovesExpired ==
    /\ [][CleanupExact]_vars
    /\ []StaleSinceLastRun
    /\ \A k \in SweepKeys : ExpiredIn(k) ~> ~ExpiredIn(k)

\* The sweep has just run at its due time: it removed a key whose set had
\* expired and was never read, and kept an entry that expires right now.
SweptUnreadWitness ==
    /\ cret.op = "cleanup"
    /\ hist.gets = 0
    /\ \E k \in Keys :
          /\ hist.latest[k].live /\ hist.latest[k].expires < now
          /\ k \notin KeysOf(cache)
    /\ \E i \in 1..Len(cache) : cache[i].expires = now

(***************************************************************************)
(* Properties of the stored timestamps                                     *)
(***************************************************************************)
Stale(id) ==
    \E i \in 1..Len(store[id].timestamps) :
        now - store[id].timestamps[i] >= WindowOf(id)

\* C27 as stated: in every reachable state every timestamp stored for an
\* identifier lies within the identifier's window, now - t < windowMs.
StoredWithinWindow == \A id \in Idents : ~Stale(id)

\* C27: when check(identifier, limit, windowMs) returns, every timestamp in
\* that identifier's record lies within the window, now - t < windowMs; the
\* records of the identifiers not checked keep what they held.
CheckedWithinWindow ==
    rret.op = "check" => ~Stale(rret.id)

\* A check has just admitted a request for one identifier while the record of
\* the other still holds a timestamp that has left its window.
StaleBesideCheckedWitness ==
    /\ rret.op = "check" /\ rret.allowed
    /\ \E i \in 1..Len(store[rret.id].timestamps) : store[rret.id].timestamps[i] < now
    /\ \E other \in Idents \ {rret.id} : Stale(other)

(***************************************************************************)
(* Properties of the limiter's sweep                                       *)
(***************************************************************************)
\* The step is a run of the sweep.
SweepStep == now' = now /\ rret'.op = "none"

Young(e, t, windowMs) ==
    \E i \in 1..Len(e.timestamps) : t - e.timestamps[i] < windowMs

StoreEmpty == \A id \in Idents : ~store[id].present

\* C29 as stated: after a sweep no identifier remains whose timestamps have
\* all left the window the identifier is checked with.
SweptByOwnWindow ==
    [][SweepStep => \A id \in Idents :
                        store'[id].present => Young(store'[id], now, WindowOf(id))]_vars

\* A sweep removes the identifiers whose timestamps are all 10 minutes old
\* or older, and no other; what it leaves holds only younger timestamps.
SweptByMaxWindow ==
    SweepStep =>
        \A id \in Idents :
            /\ store'[id].present <=>
                  (store[id].present /\ Young(store[id], now, MaxWindowMs))
            /\ \A i \in 1..Len(store'[id].timestamps) :
                  now - store'[id].timestamps[i] < MaxWindowMs

\* C29: after a sweep no identifier remains whose timestamps are all at
\* least 10 minutes old, the sweep's own maxWindowMs; once traffic has
\* stopped every identifier is eventually removed and the store stays empty.
SweepEmptiesStore ==
    /\ [][SweptByMaxWindow]_vars
    /\ <>[]StoreEmpty

\* Traffic has stopped and the store is empty again after an identifier had
\* been admitted.
EmptiedWitness ==
    /\ StoreEmpty
    /\ now > BusyEnd
    /\ \E id \in Idents : admitted[id] # <<>>

(***************************************************************************)
(* Properties of the values a check returns                                *)
(***************************************************************************)
\* The step is a call check(id, LimitOf(id), WindowOf(id)).
CheckStep(id) == rret'.op = "check" /\ rret'.id = id /\ now' = now

\* The stored timestamps of id that are inside its window now.
InWindowCount(id) ==
    Cardinality({i \in 1..Len(store[id].timestamps) :
                    now - store[id].timestamps[i] < WindowOf(id)})

\* C35: remaining is never negative; an allowed check returns the number of
\* further checks the identifier has left, limit minus the timestamps in
\* the window including its own; each later check made before a timestamp
\* ages out is allowed exactly while that number is positive and lowers it by
\* one, and the check after the last of them is denied.
RemainingAccurate ==
    [][\A id \in Idents :
          CheckStep(id) =>
             /\ rret'.remaining >= 0
             /\ rret'.allowed <=> InWindowCount(id) < LimitOf(id)
             /\ rret'.allowed =>
                   /\ rret'.remaining = LimitOf(id) - InWindowCount(id) - 1
                   /\ Len(store'[id].timestamps) = InWindowCount(id) + 1
             /\ ~rret'.allowed => rret'.remaining = 0
             /\ (rret.op = "check" /\ rret.id = id /\ rret.allowed) =>
                   /\ rret'.allowed <=> rret.remaining >= 1
                   /\ rret'.allowed => rret'.remaining = rret.remaining - 1]_vars

\* An identifier with limit 2 was admitted twice at the same instant, the
\* first time with one check remaining, and its third check was denied.
RemainingUsedUpWitness ==
    /\ rret.op = "check" /\ ~rret.allowed /\ rret.remaining = 0
    /\ LimitOf(rret.id) = 2
    /\ store[rret.id].timestamps = <<now, now>>

\* C36: a denied check(id, L, W) with L >= 1 returns retryAfter >= 1, and a
\* check made at or after the time it announced, with no admission of the
\* identifier in between, is allowed; denied checks, resets and sweeps in
\* between do not postpone that time.
RetryAfterSufficient ==
    [][\A id \in Idents :
          (CheckStep(id) /\ LimitOf(id) >= 1) =>
             /\ ~rret'.allowed =>
                   /\ rret'.retryAfter # <<>>
                   /\ rret'.retryAfter[1] >= 1
             /\ (promise[id].state = "owed" /\ now >= promise[id].due) =>
                   rret'.allowed]_vars

\* A check was denied less than a second before the oldest timestamp left
\* the window and announced one second; the next check of the identifier
\* came after that second and was admitted.
RetryAfterPaidWitness ==
    \E id \in Idents :
       /\ rret.op = "check" /\ rret.id = id /\ rret.allowed
       /\ LimitOf(id) >= 1
       /\ promise[id].state = "paid"
       /\ now >= promise[id].due
       /\ promise[id].due % CleanupIntervalMs = 1000

(***************************************************************************)
(* The sweep and the checks that follow it                                 *)
(***************************************************************************)
TenMinutesMs == 10 * 60 * 1000
MaxLater == 2
LaterTimes == {now + k * CleanupIntervalMs : k \in 0..MaxLater}

\* The timestamps a check at time t keeps of those in an entry.
KeptAt(e, t, windowMs) ==
    SelectSeq(e.timestamps, LAMBDA ts : t - ts < windowMs)

\* What a check of id at time t returns and keeps when the entry is e.
CheckAt(e, t, id) ==
    LET kept == KeptAt(e, t, WindowOf(id))
    IN  <<ResultFrom(kept, t, id, LimitOf(id), WindowOf(id)), kept>>

\* C37: for an identifier checked with a window of at most 10 minutes, a
\* check made now or later returns the same allowed, remaining, resetTime
\* and retryAfter, and keeps the same timestamps, whether or not the sweep
\* has run now.
SweepIsInvisible ==
    \A id \in Idents :
       WindowOf(id) <= TenMinutesMs =>
          \A t \in LaterTimes :
             CheckAt(SweepEntry(store[id]), t, id) = CheckAt(store[id], t, id)

\* An identifier with a window of at most 10 minutes holds a timestamp that
\* a sweep running now removes.
SweepRemovesWitness ==
    \E id \in Idents :
       /\ WindowOf(id) <= TenMinutesMs
       /\ store[id].present
       /\ SweepEntry(store[id]) # store[id]

(***************************************************************************)
(* The TomTom daily counter                                                *)
(***************************************************************************)
\* Caller c enters searchPlaces or getPlaceDetails in this step.
TomTomEnters(c) == req[c].pc = "idle" /\ req'[c].pc # "idle"

\* The step is resetTomTomRequestCount().
TomTomResets == tt.count > 0 /\ tt'.count = 0

CounterWithinLimit ==
    /\ tt.count <= DailyLimit
    /\ tt.count = tlog.base + tlog.issued

CountedOncePerRequest ==
    /\ \A c \in TomTomCallers :
          TomTomEnters(c) =>
             IF ~tt.apiKey
             THEN req'[c].pc = "threw" /\ tt'.count = tt.count
             ELSE IF tt.count < DailyLimit
             THEN /\ req'[c].pc = "fetching"
                  /\ tt'.count = tt.count + 1
                  /\ tlog'.issued = tlog.issued + 1
             ELSE /\ req'[c].pc = "returned"
                  /\ req'[c].ret = (IF req'[c].fn = "searchPlaces" THEN "[]" ELSE "null")
                  /\ tt'.count = tt.count
                  /\ tlog'.issued = tlog.issued
    /\ ((\A c \in TomTomCallers : ~TomTomEnters(c)) /\ ~TomTomResets) =>
          (tt'.count = tt.count /\ tlog' = tlog)

\* C39: between resets tomtomRequestCount never exceeds 2,500 and equals its
\* value at the last reset plus the requests issued since; searchPlaces and
\* getPlaceDetails issue a request only when the counter is below 2,500 and
\* then add exactly one, however the concurrent calls interleave; at the
\* cap they return [] and null without a request and without counting.
DailyCounterExact ==
    /\ []CounterWithinLimit
    /\ [][CountedOncePerRequest]_vars

\* The counter was brought to 2,500 while another request was still in
\* flight, and a searchPlaces call made then returned [].
CapReachedWitness ==
    /\ tt.count = DailyLimit
    /\ tlog.issued >= 2
    /\ \E c, o \in TomTomCallers :
          /\ req[c] = [fn |-> "searchPlaces", pc |-> "returned", ret |-> "[]"]
          /\ req[o].pc = "fetching"

(***************************************************************************)
(* The order in which a geocode request is charged                         *)
(***************************************************************************)
\* The request followed passes the middleware, or the handler's gate.
MiddlewareStep == gate.pc = "arrived" /\ gate'.pc # "arrived"
HandlerStep == gate.pc = "routed" /\ gate'.pc # "routed"

LastOf(seq) == seq[Len(seq)]

GlobalBeforeRoute ==
    /\ gate.pc \in {"routed", "provider"} => gate.global = "allowed"
    /\ gate.route # "none" => gate.global = "allowed"
    /\ gate.global = "denied" =>
          /\ gate.pc = "done" /\ gate.status = 429
          /\ gate.route = "none" /\ gate.provider = 0
    /\ gate.status = 405 =>
          /\ gate.method # "POST"
          /\ gate.global = "allowed" /\ gate.route = "none"

ChargedInOrder ==
    /\ MiddlewareStep =>
          /\ store'["geocode:ip"] = store["geocode:ip"]
          /\ gate'.global = "allowed" =>
                /\ Len(store'["global:ip"].timestamps) = InWindowCount("global:ip") + 1
                /\ LastOf(store'["global:ip"].timestamps) = now
          /\ gate'.global = "denied" =>
                Len(store'["global:ip"].timestamps) = InWindowCount("global:ip")
    /\ HandlerStep =>
          /\ store'["global:ip"] = store["global:ip"]
          /\ gate.method # "POST" =>
                /\ gate'.status = 405
                /\ store' = store
          /\ gate.method = "POST" =>
                /\ gate'.route \in {"allowed", "denied"}
                /\ gate'.route = "denied" =>
                      /\ gate'.status = 429
                      /\ Len(store'["geocode:ip"].timestamps) = InWindowCount("geocode:ip")
                /\ gate'.route = "allowed" =>
                      /\ Len(store'["geocode:ip"].timestamps) =
                            InWindowCount("geocode:ip") + 1
                      /\ (gate.hasBody /\ ~gate.valid) => gate'.status = 400
                      /\ ~gate.hasBody => gate'.status = 500

\* C40: a geocode request meets the global gate first; denied there it is
\* answered 429 and the 'geocode:' record is untouched; admitted there it has
\* added one timestamp to the 'global:' record, which stays when the route
\* gate denies it or its body is rejected (400, or 500 for a body that is
\* null or missing); a request that is not a POST is answered 405 with the
\* 'geocode:' record untouched.
GateChargingOrder ==
    /\ []GlobalBeforeRoute
    /\ [][ChargedInOrder]_vars

\* The request passed the global gate at this instant, leaving its timestamp
\* there, and was denied by the route gate, which holds its ten timestamps.
RouteDeniedAfterGlobalWitness ==
    /\ gate.pc = "done" /\ gate.status = 429
    /\ gate.global = "allowed" /\ gate.route = "denied"
    /\ store["global:ip"].present
    /\ LastOf(store["global:ip"].timestamps) = now
    /\ Len(store["geocode:ip"].timestamps) = GeocodeLimit

(***************************************************************************)
(* Properties of the backoff delays                                        *)
(***************************************************************************)
RECURSIVE SumSeq(_)
SumSeq(q) == IF q = <<>> THEN 0 ELSE Head(q) + SumSeq(Tail(q))

\* The i-th sleep of the call follows attempt index i - 1; what it adds to
\* initialDelay * 2^(i-1) below the cap is at most `top`.
DelayWithin(i, top) ==
    LET base == rcfg.initialDelay * Pow2(i - 1) IN
    /\ \E j \in 0..top : sleeps[i] = Min(base + j, rcfg.maxDelay)
    /\ sleeps[i] <= rcfg.maxDelay
    /\ sleeps[i] >= Min(base, rcfg.maxDelay)

\* The total delay is the sum of the delays and at most
\* (maxAttempts - 1) * maxDelay; a call with maxAttempts = 0 enters no
\* attempt and sleeps 0 ms in total.
TotalDelayBounded ==
    /\ totalDelay = SumSeq(sleeps)
    /\ IF rcfg.maxAttempts >= 1
          THEN totalDelay <= (rcfg.maxAttempts - 1) * rcfg.maxDelay
          ELSE totalDelay = 0

\* C26 (as claimed): every delay slept after attempt i is
\* floor(min(initialDelay * 2^i + jitter, maxDelay)) with jitter in [0, 100),
\* that is at most initialDelay * 2^i + 99 below the cap.
BackoffJitterBelowHundred ==
    /\ \A i \in 1..Len(sleeps) : DelayWithin(i, 99)
    /\ TotalDelayBounded

\* C26 (amended): every delay slept after attempt i is
\* floor(min(initialDelay * 2^i + jitter, maxDelay)) as the doubles compute
\* it with jitter in [0, 100): from initialDelay * 2^i to
\* initialDelay * 2^i + 100 below the cap, so at most maxDelay and at least
\* min(initialDelay * 2^i, maxDelay), and the total delay of a call that
\* makes an attempt (maxAttempts >= 1) is at most
\* (maxAttempts - 1) * maxDelay.
BackoffDelays ==
    /\ \A i \in 1..Len(sleeps) : DelayWithin(i, 100)
    /\ TotalDelayBounded

\* A call slept the longest jittered delay below the cap and then a capped
\* one.
CappedDelayWitness ==
    /\ rpc = "thrown"
    /\ Len(sleeps) = 2
    /\ sleeps[1] = rcfg.initialDelay + 100 /\ sleeps[1] < rcfg.maxDelay
    /\ sleeps[2] = rcfg.maxDelay
    /\ rcfg.initialDelay * Pow2(1) > rcfg.maxDelay

\* A call with DEFAULT_CONFIG whose operation keeps failing with retryable
\* errors has ended.
DefaultExhausted ==
    /\ rcfg = DefaultConfig(3)
    /\ Len(script.fails) >= 3 /\ RetryableUpTo(3)
    /\ rpc = "thrown"

\* C32 as stated: such a call makes 3 attempts and its delays are 1 s, 2 s
\* and 4 s, each plus a jitter of up to 100 ms.
DefaultBackoffOneTwoFour ==
    DefaultExhausted =>
        /\ calls = 3
        /\ Len(sleeps) = 3
        /\ sleeps[1] \in 1000..1100
        /\ sleeps[2] \in 2000..2100
        /\ sleeps[3] \in 4000..4100

\* C32: such a call makes 3 attempts and sleeps twice between them, 1 s and
\* then 2 s, each plus a jitter of up to 100 ms; no delay follows the third
\* attempt.
DefaultBackoffOneTwo ==
    DefaultExhausted =>
        /\ calls = 3
        /\ Len(sleeps) = 2
        /\ sleeps[1] \in 1000..1100
        /\ sleeps[2] \in 2000..2100
        /\ totalDelay = sleeps[1] + sleeps[2]

\* The default call gave up after sleeping the longest first delay and the
\* shortest second delay.
DefaultExhaustedWitness ==
    /\ DefaultExhausted
    /\ sleeps = <<1100, 2000>>

(***************************************************************************)
(* Properties of the upstream throttle                                     *)
(***************************************************************************)
\* C25: whatever the interleaving of the concurrent calls, two upstream
\* requests are never started less than the interval (1000 ms for
\* Nominatim) apart.
UpstreamSpaced ==
    \A c, d \in Callers :
        (c # d /\ callers[c].pc = "requested" /\ callers[d].pc = "requested") =>
            \/ callers[c].startedAt - callers[d].startedAt >= interval
            \/ callers[d].startedAt - callers[c].startedAt >= interval

====
